---- MODULE Spec2Model ----
(***************************************************************************)
(* Model of the order matching engine: Order (Order.h), PriceLevel and     *)
(* OrderTracker (OrderTracker.h) and OrderBook (OrderBook.h).              *)
(*                                                                         *)
(* Orders live in one pool, `orders`, indexed by position; an OrderPtr is  *)
(* a position in the pool (0 is the null pointer).  A tracker is a value   *)
(* [is_buy_side_, price_levels_, order_locations_]; a price level is a     *)
(* value [price_, orders_, total_quantity_, order_count_, capacity].       *)
(*                                                                         *)
(* Quantity and size_t are unsigned 64-bit.  A value v is represented by   *)
(* the integer v when it is small and by v - 2^64 when it has wrapped, so  *)
(* + and - are the integer ones and only the comparisons differ (ULess).   *)
(***************************************************************************)
EXTENDS Integers, Sequences, FiniteSets, TLC

\* ---------------------------------------------------------------- bounds
MaxOrders == 3
MaxQty == 2
MaxPrice == 2
MaxTrades == 2
MaxRejected == 2
\* a level holds at most MaxLevelLen orders and its total_quantity_ stays
\* within MaxTotal of zero
MaxLevelLen == 3
MaxTotal == 4
\* at most MaxOps calls are made on the free-standing tracker
MaxOps == 4
\* orders a client of the engine's own interface holds, listeners registered
\* in one registry
MaxBookOrders == 1
MaxListeners == 2
\* client threads calling into one engine, each making one call
NumThreads == 2
\* the depth tracker is instantiated for 1 .. MaxDepthLevels levels
MaxDepthLevels == 2
\* orders constructed where one method of the trackers is looked at: match
\* plans, fills of a level, the changes between two depth captures
MaxPlanOrders == 2
\* listeners registered where every public operation of the engine is called
MaxPublicListeners == 1

\* ------------------------------------------------------- program constants
NullOrder == 0
MARKET_PRICE == 0
NO_CONDITIONS == 0
ALL_OR_NONE == 1
IMMEDIATE_OR_CANCEL == 2
FILL_NORMAL == 0
FILL_PARTIAL == 4
FILL_COMPLETE == 8
\* std::numeric_limits<Price>::max(), any value above every modelled price
PriceMax == 1000000

\* ------------------------------------------------------- unsigned 64-bit
\* a < b on uint64_t under the wrapped representation
ULess(a, b) == IF (a < 0) = (b < 0) THEN a < b ELSE b < 0

\* std::min on uint64_t
UMin(a, b) == IF ULess(b, a) THEN b ELSE a

\* ------------------------------------------------------------- Order.h
\* Order::Order: open_quantity_ = qty, stop_price_ = 0, status_ = PENDING.
\* status_trail is a history field: the status the order had when the last
\* operation that writes statuses began, followed by every status that
\* operation wrote to it, in order.
NewOrderRec(id, sym, side, qty, price, type, tif) ==
    [order_id_ |-> id, symbol_ |-> sym, side_ |-> side, quantity_ |-> qty,
     open_quantity_ |-> qty, price_ |-> price, stop_price_ |-> 0,
     order_type_ |-> type, time_in_force_ |-> tif, status_ |-> "PENDING",
     status_trail |-> <<"PENDING">>]

is_buy(o) == o.side_ = "BUY"
is_market(o) == o.order_type_ = "MARKET"
is_stop(o) == o.order_type_ \in {"STOP", "STOP_LIMIT"}
is_fill_or_kill(o) == o.time_in_force_ = "FILL_OR_KILL"

set_open_quantity(ords, p, q) == [ords EXCEPT ![p].open_quantity_ = q]
set_stop_price(ords, p, price) == [ords EXCEPT ![p].stop_price_ = price]
set_status(ords, p, s) ==
    [ords EXCEPT ![p].status_ = s, ![p].status_trail = Append(@, s)]

\* a new operation begins: the trails restart from the current statuses
RECURSIVE BeginOperation(_)
BeginOperation(ords) ==
    IF ords = <<>> THEN <<>>
    ELSE Append(BeginOperation(SubSeq(ords, 1, Len(ords) - 1)),
                [ords[Len(ords)] EXCEPT
                    !.status_trail = <<ords[Len(ords)].status_>>])

\* ------------------------------------------------- std::vector<OrderPtr>
\* capacity after a reallocating insert into a full vector of n elements
\* (geometric growth)
GrowCapacity(n) == IF n = 0 THEN 1 ELSE 2 * n

\* orders_.erase(it) for a position inside the vector
EraseAt(s, i) == SubSeq(s, 1, i - 1) \o SubSeq(s, i + 1, Len(s))

\* ------------------------------------------------------------ PriceLevel
NewPriceLevel(price) ==
    [price_ |-> price, orders_ |-> <<>>, total_quantity_ |-> 0,
     order_count_ |-> 0, capacity |-> 0]

\* PriceLevel::add_order; the returned iterator is position Len(orders_)
PL_add_order(L, ords, p) ==
    [L EXCEPT !.total_quantity_ = @ + ords[p].open_quantity_,
              !.order_count_ = @ + 1,
              !.orders_ = Append(@, p),
              !.capacity = IF Len(L.orders_) = @ THEN GrowCapacity(@) ELSE @]

\* PriceLevel::remove_order for an iterator that designates position i
PL_remove_order(L, ords, i) ==
    [L EXCEPT !.total_quantity_ = @ - ords[L.orders_[i]].open_quantity_,
              !.order_count_ = @ - 1,
              !.orders_ = EraseAt(@, i)]

\* PriceLevel::update_quantity
PL_update_quantity(L, old_qty, new_qty) ==
    [L EXCEPT !.total_quantity_ = @ + (new_qty - old_qty)]

\* PriceLevel::fill_quantity: the while loop, it = position i of L.orders_.
\* The result is [level, ords, filled].
RECURSIVE FillLoop(_, _, _, _, _)
FillLoop(L, ords, i, filled, max_quantity) ==
    IF i <= Len(L.orders_) /\ ULess(filled, max_quantity)
    THEN LET p == L.orders_[i]
             available == ords[p].open_quantity_
             fill_qty == UMin(available, max_quantity - filled)
             ords1 == set_open_quantity(ords, p, available - fill_qty)
             L1 == [L EXCEPT !.total_quantity_ = @ - fill_qty]
         IN  IF ords1[p].open_quantity_ = 0
             THEN FillLoop([L1 EXCEPT !.orders_ = EraseAt(@, i),
                                      !.order_count_ = @ - 1],
                           set_status(ords1, p, "FILLED"),
                           i, filled + fill_qty, max_quantity)
             ELSE FillLoop(L1, set_status(ords1, p, "PARTIALLY_FILLED"),
                           i + 1, filled + fill_qty, max_quantity)
    ELSE [level |-> L, ords |-> ords, filled |-> filled]

\* a fill_quantity that leaves order_count_ as it found it
PL_fill_quantity_CountKept(L, ords, max_quantity) ==
    LET r == FillLoop(L, ords, 1, 0, max_quantity)
    IN  [level |-> [r.level EXCEPT !.order_count_ = L.order_count_],
         ords |-> r.ords, filled |-> r.filled]

PL_fill_quantity(L, ords, max_quantity) == FillLoop(L, ords, 1, 0, max_quantity)

\* ---------------------------------------------------------- OrderTracker
NewTracker(is_buy_side) ==
    [is_buy_side_ |-> is_buy_side, price_levels_ |-> <<>>,
     order_locations_ |-> <<>>]

\* std::map<K, V> as a function on its keys, built from explicit pairs
\* m[k] = v
MapPut(m, k, v) == (k :> v) @@ m

\* the entries of m at the keys S
RECURSIVE MapRestrict(_, _)
MapRestrict(m, S) ==
    IF S = {} THEN <<>>
    ELSE LET k == CHOOSE x \in S : TRUE
         IN  (k :> m[k]) @@ MapRestrict(m, S \ {k})

\* m.erase(k)
MapErase(m, k) == MapRestrict(m, DOMAIN m \ {k})

\* The iterators stored for the level at `price` stop pointing into its
\* buffer when the buffer is reallocated or the level is destroyed.
RECURSIVE InvalidateKeys(_, _, _)
InvalidateKeys(locs, price, S) ==
    IF S = {} THEN <<>>
    ELSE LET k == CHOOSE x \in S : TRUE
         IN  (k :> IF locs[k].price = price
                   THEN [locs[k] EXCEPT !.live = FALSE] ELSE locs[k])
             @@ InvalidateKeys(locs, price, S \ {k})

Invalidate(locs, price) == InvalidateKeys(locs, price, DOMAIN locs)

\* OrderTracker::addOrder
OT_addOrder(T, ords, p) ==
    LET price == ords[p].price_
        L0 == IF price \in DOMAIN T.price_levels_
              THEN T.price_levels_[price] ELSE NewPriceLevel(price)
        realloc == Len(L0.orders_) = L0.capacity
        L1 == PL_add_order(L0, ords, p)
        locs0 == IF realloc THEN Invalidate(T.order_locations_, price)
                 ELSE T.order_locations_
    IN  [T EXCEPT !.price_levels_ = MapPut(@, price, L1),
                  !.order_locations_ =
                      MapPut(locs0, ords[p].order_id_,
                             [price |-> price, idx |-> Len(L1.orders_),
                              live |-> TRUE])]

\* OrderTracker::has_order
has_order(T, id) == id \in DOMAIN T.order_locations_

\* OrderTracker::total_orders
total_orders(T) == Cardinality(DOMAIN T.order_locations_)

\* the stored iterator can be dereferenced and erased: it points into the
\* level's current buffer, at one of its elements
IterValid(T, loc) ==
    /\ loc.price \in DOMAIN T.price_levels_
    /\ loc.live
    /\ loc.idx <= Len(T.price_levels_[loc.price].orders_)

\* OrderTracker::remove_order with a dereferenceable iterator.
\* The result is [tracker, ret].
OT_remove_order(T, ords, p) ==
    LET id == ords[p].order_id_ IN
    IF ~has_order(T, id) THEN [tracker |-> T, ret |-> FALSE]
    ELSE LET loc == T.order_locations_[id] IN
         IF loc.price \notin DOMAIN T.price_levels_
         THEN [tracker |-> T, ret |-> FALSE]
         ELSE LET L1 == PL_remove_order(T.price_levels_[loc.price], ords, loc.idx)
              IN  IF L1.orders_ = <<>>
                  THEN [tracker |->
                          [T EXCEPT !.price_levels_ = MapErase(@, loc.price),
                                    !.order_locations_ =
                                        MapErase(Invalidate(@, loc.price), id)],
                        ret |-> TRUE]
                  ELSE [tracker |->
                          [T EXCEPT !.price_levels_ = MapPut(@, loc.price, L1),
                                    !.order_locations_ = MapErase(@, id)],
                        ret |-> TRUE]

\* OrderTracker::remove_order through a stale iterator, when the process
\* survives: (*it) is read as order x, element k of the level is erased
OT_remove_stale(T, ords, id, x, k) ==
    LET price == T.order_locations_[id].price
        L == T.price_levels_[price]
        L1 == [L EXCEPT !.total_quantity_ = @ - ords[x].open_quantity_,
                        !.order_count_ = @ - 1,
                        !.orders_ = EraseAt(@, k)]
    IN  IF L1.orders_ = <<>>
        THEN [T EXCEPT !.price_levels_ = MapErase(@, price),
                       !.order_locations_ =
                           MapErase(Invalidate(@, price), id)]
        ELSE [T EXCEPT !.price_levels_ = MapPut(@, price, L1),
                       !.order_locations_ = MapErase(@, id)]

\* OrderTracker::update_order_quantity.  The result is [tracker, ords].
OT_update_order_quantity(T, ords, p, new_qty) ==
    LET id == ords[p].order_id_ IN
    IF has_order(T, id) /\ T.order_locations_[id].price \in DOMAIN T.price_levels_
    THEN LET price == T.order_locations_[id].price
             old_qty == ords[p].open_quantity_
         IN  [tracker |->
                 [T EXCEPT !.price_levels_[price] =
                              PL_update_quantity(@, old_qty, new_qty)],
              ords |-> set_open_quantity(ords, p, new_qty)]
    ELSE [tracker |-> T, ords |-> ords]

\* a map that iterates from the highest key down
RECURSIVE SortedKeys_Descending(_)
SortedKeys_Descending(S) ==
    IF S = {} THEN <<>>
    ELSE LET m == CHOOSE x \in S : \A y \in S : x >= y
         IN  <<m>> \o SortedKeys_Descending(S \ {m})

\* iteration order of std::map<Price, PriceLevelPtr>: std::less<Price>
RECURSIVE SortedKeys(_)
SortedKeys(S) ==
    IF S = {} THEN <<>>
    ELSE LET m == CHOOSE x \in S : \A y \in S : x <= y
         IN  <<m>> \o SortedKeys(S \ {m})

LevelKeys(T) == SortedKeys(DOMAIN T.price_levels_)

\* OrderTracker::best_price
best_price(T) == IF LevelKeys(T) = <<>> THEN 0 ELSE LevelKeys(T)[1]

\* OrderTracker::best_level; null stands for nullptr
best_level(T) ==
    IF LevelKeys(T) = <<>> THEN [null |-> TRUE, level |-> NewPriceLevel(0)]
    ELSE [null |-> FALSE, level |-> T.price_levels_[LevelKeys(T)[1]]]

\* the inner loop walking a level from its newest order to its oldest
RECURSIVE MatchLevel_NewestFirst(_, _, _, _, _)
MatchLevel_NewestFirst(os, ords, i, matches, remaining) ==
    IF i <= Len(os) /\ remaining # 0
    THEN LET o == os[Len(os) + 1 - i]
             available == ords[o].open_quantity_
             match_qty == UMin(available, remaining)
         IN  MatchLevel_NewestFirst(os, ords, i + 1,
                                    Append(matches, <<o, match_qty>>),
                                    remaining - match_qty)
    ELSE [matches |-> matches, remaining |-> remaining]

\* OrderTracker::matchQuantity: inner loop over the orders of one level.
\* The result is [matches, remaining].
RECURSIVE MatchLevel(_, _, _, _, _)
MatchLevel(os, ords, i, matches, remaining) ==
    IF i <= Len(os) /\ remaining # 0
    THEN LET available == ords[os[i]].open_quantity_
             match_qty == UMin(available, remaining)
         IN  MatchLevel(os, ords, i + 1,
                        Append(matches, <<os[i], match_qty>>),
                        remaining - match_qty)
    ELSE [matches |-> matches, remaining |-> remaining]

\* OrderTracker::matchQuantity: outer loop over the levels
RECURSIVE MatchLevels(_, _, _, _, _, _)
MatchLevels(T, ords, keys, limit_price, matches, remaining) ==
    IF keys # <<>> /\ remaining # 0
    THEN LET level_price == keys[1]
             can_match == IF T.is_buy_side_ THEN level_price >= limit_price
                          ELSE level_price <= limit_price
         IN  IF ~can_match THEN matches
             ELSE LET r == MatchLevel(T.price_levels_[level_price].orders_,
                                      ords, 1, matches, remaining)
                  IN  MatchLevels(T, ords, Tail(keys), limit_price,
                                  r.matches, r.remaining)
    ELSE matches

matchQuantity(T, ords, limit_price, max_quantity) ==
    MatchLevels(T, ords, LevelKeys(T), limit_price, <<>>, max_quantity)

\* the quantity a plan fills
RECURSIVE MatchedQuantity(_)
MatchedQuantity(matches) ==
    IF matches = <<>> THEN 0
    ELSE matches[1][2] + MatchedQuantity(Tail(matches))

\* a matchQuantity that charges each planned fill to its order
RECURSIVE ChargeMatches(_, _)
ChargeMatches(ords, matches) ==
    IF matches = <<>> THEN ords
    ELSE ChargeMatches(
             set_open_quantity(ords, matches[1][1],
                               ords[matches[1][1]].open_quantity_
                                   - matches[1][2]),
             Tail(matches))

OT_matchQuantity_Charging(T, ords, limit_price, max_quantity) ==
    LET matches == matchQuantity(T, ords, limit_price, max_quantity)
    IN  [matches |-> matches, tracker |-> T,
         ords |-> ChargeMatches(ords, matches)]

\* OrderTracker::matchQuantity as a call: the plan it returns, and the
\* tracker and the orders as it leaves them.  The method assigns to its
\* locals (matches, remaining, the iterators) and to nothing else.
OT_matchQuantity(T, ords, limit_price, max_quantity) ==
    [matches |-> matchQuantity(T, ords, limit_price, max_quantity),
     tracker |-> T, ords |-> ords]

\* -------------------------------------------------------------- OrderBook
mSymbol == "SYM"

\* OrderBook::validateOrder for a non-null order
validateOrder(o) ==
    /\ o.symbol_ = mSymbol
    /\ o.quantity_ # 0
    /\ ~ULess(o.quantity_, o.open_quantity_)
    /\ (is_market(o) \/ o.price_ > 0)
    /\ (~is_stop(o) \/ o.stop_price_ > 0)

\* IsAllOrNone that tests the IMMEDIATE_OR_CANCEL bit
IsAllOrNone_OtherBit(conditions) == (conditions \div 2) % 2 = 1

\* OrderBook::IsAllOrNone: (conditions & ALL_OR_NONE) == 1
IsAllOrNone(conditions) == conditions % 2 = 1

\* executeTrade that counts the trade but not its volume
executeTrade_VolumeNotCounted(B, inb, rest, quantity, price) ==
    LET flags == IF B.ords[inb].open_quantity_ = quantity
                 THEN FILL_COMPLETE ELSE FILL_PARTIAL
        trade == [inbound_order |-> inb, resting_order |-> rest,
                  quantity |-> quantity, price |-> price, flags |-> flags]
        restingRemainingQty == B.ords[rest].open_quantity_ - quantity
        ords1 == set_open_quantity(B.ords, rest, restingRemainingQty)
    IN  [B EXCEPT !.trades = Append(@, trade),
                  !.stats.total_trades = @ + 1,
                  !.lastPrice = price,
                  !.lastQty = quantity,
                  !.market = price,
                  !.ords = set_status(ords1, rest,
                               IF restingRemainingQty = 0 THEN "FILLED"
                               ELSE "PARTIALLY_FILLED")]

\* executeTrade that records the trade but does not charge the resting order
executeTrade_RestingNotCharged(B, inb, rest, quantity, price) ==
    LET flags == IF B.ords[inb].open_quantity_ = quantity
                 THEN FILL_COMPLETE ELSE FILL_PARTIAL
        trade == [inbound_order |-> inb, resting_order |-> rest,
                  quantity |-> quantity, price |-> price, flags |-> flags]
    IN  [B EXCEPT !.trades = Append(@, trade),
                  !.stats.total_trades = @ + 1,
                  !.stats.total_volume = @ + quantity,
                  !.lastPrice = price,
                  !.lastQty = quantity,
                  !.market = price,
                  !.ords = set_status(@, rest, "PARTIALLY_FILLED")]

\* executeTrade that leaves the market price alone
executeTrade_MarketPriceNotStored(B, inb, rest, quantity, price) ==
    LET flags == IF B.ords[inb].open_quantity_ = quantity
                 THEN FILL_COMPLETE ELSE FILL_PARTIAL
        trade == [inbound_order |-> inb, resting_order |-> rest,
                  quantity |-> quantity, price |-> price, flags |-> flags]
        restingRemainingQty == B.ords[rest].open_quantity_ - quantity
        ords1 == set_open_quantity(B.ords, rest, restingRemainingQty)
    IN  [B EXCEPT !.trades = Append(@, trade),
                  !.stats.total_trades = @ + 1,
                  !.stats.total_volume = @ + quantity,
                  !.lastPrice = price,
                  !.lastQty = quantity,
                  !.ords = set_status(ords1, rest,
                               IF restingRemainingQty = 0 THEN "FILLED"
                               ELSE "PARTIALLY_FILLED")]

\* OrderBook::executeTrade on the book value
\* B = [ords, trades, stats, market, lastPrice, lastQty, bids, asks,
\*      orderListeners, events]
executeTrade(B, inb, rest, quantity, price) ==
    LET flags == IF B.ords[inb].open_quantity_ = quantity
                 THEN FILL_COMPLETE ELSE FILL_PARTIAL
        trade == [inbound_order |-> inb, resting_order |-> rest,
                  quantity |-> quantity, price |-> price, flags |-> flags]
        restingRemainingQty == B.ords[rest].open_quantity_ - quantity
        ords1 == set_open_quantity(B.ords, rest, restingRemainingQty)
    IN  [B EXCEPT !.trades = Append(@, trade),
                  !.stats.total_trades = @ + 1,
                  !.stats.total_volume = @ + quantity,
                  !.lastPrice = price,
                  !.lastQty = quantity,
                  !.market = price,
                  !.ords = set_status(ords1, rest,
                               IF restingRemainingQty = 0 THEN "FILLED"
                               ELSE "PARTIALLY_FILLED")]

\* OrderBook::matchBuyOrder: the for loop over the plan, from entry i.
\* The result is [book, any_fill].
RECURSIVE MatchLoop(_, _, _, _, _, _, _)
MatchLoop(B, inb, conditions, matches, i, inBoundOrderRemaining, any_fill) ==
    IF i > Len(matches) \/ inBoundOrderRemaining = 0
    THEN [book |-> B, any_fill |-> any_fill]
    ELSE LET restingOrderPtr == matches[i][1]
             restingOrderRemainingQty == matches[i][2]
         IN  IF IsAllOrNone(conditions)
                /\ ULess(restingOrderRemainingQty, inBoundOrderRemaining)
             THEN MatchLoop(B, inb, conditions, matches, i + 1,
                            inBoundOrderRemaining, any_fill)
             ELSE LET fillQty == UMin(restingOrderRemainingQty,
                                      inBoundOrderRemaining)
                      fillPrice == B.ords[restingOrderPtr].price_
                      B1 == executeTrade(B, inb, restingOrderPtr,
                                         fillQty, fillPrice)
                      rem == inBoundOrderRemaining - fillQty
                      ords2 == set_open_quantity(B1.ords, inb, rem)
                  IN  IF rem = 0
                      THEN [book |-> [B1 EXCEPT !.ords =
                                         set_status(ords2, inb, "FILLED")],
                            any_fill |-> TRUE]
                      ELSE MatchLoop([B1 EXCEPT !.ords =
                                         set_status(ords2, inb,
                                                    "PARTIALLY_FILLED")],
                                     inb, conditions, matches, i + 1, rem,
                                     TRUE)

\* OrderBook::matchBuyOrder against the ask tracker A
matchBuyOrder(B, A, inb, conditions, limitPrice) ==
    LET inBoundOrderRemaining == B.ords[inb].open_quantity_
        matches == matchQuantity(A, B.ords, limitPrice, inBoundOrderRemaining)
    IN  MatchLoop(B, inb, conditions, matches, 1, inBoundOrderRemaining, FALSE)

\* OrderBook::matchMarketBuyOrder
matchMarketBuyOrder(B, A, inb, conditions) ==
    matchBuyOrder(B, A, inb, conditions, PriceMax)

\* processMarketOrder that leaves what it could not fill as it is
processMarketOrder_NotCancelled(B, A, inb, conditions) ==
    LET r == IF is_buy(B.ords[inb])
             THEN matchMarketBuyOrder(B, A, inb, conditions)
             ELSE [book |-> B, any_fill |-> FALSE]
    IN  [book |-> r.book, filled |-> r.any_fill]

\* OrderBook::processMarketOrder.  The result is [book, filled].
processMarketOrder(B, A, inb, conditions) ==
    LET r == IF is_buy(B.ords[inb])
             THEN matchMarketBuyOrder(B, A, inb, conditions)
             ELSE [book |-> B, any_fill |-> FALSE]
        B1 == r.book
    IN  [book |-> IF B1.ords[inb].open_quantity_ # 0
                  THEN [B1 EXCEPT !.ords = set_status(@, inb, "CANCELLED")]
                  ELSE B1,
         filled |-> r.any_fill]

\* the calls listener->on_reject(order, reason) of rejectOrder's loop over
\* mOrderListeners, from listener i on, appended to the calls made so far
RECURSIVE NotifyReject(_, _, _, _, _)
NotifyReject(calls, listeners, i, inb, reason) ==
    IF i > Len(listeners) THEN calls
    ELSE NotifyReject(Append(calls, [event |-> "on_reject",
                                     listener |-> listeners[i],
                                     order |-> inb, reason |-> reason]),
                      listeners, i + 1, inb, reason)

\* rejectOrder that bumps the counter and tells no listener
rejectOrder_Silent(B, inb, reason) ==
    [B EXCEPT !.ords = set_status(@, inb, "REJECTED"),
              !.stats.total_rejected = @ + 1]

\* OrderBook::rejectOrder for a non-null order
rejectOrder(B, inb, reason) ==
    [B EXCEPT !.ords = set_status(@, inb, "REJECTED"),
              !.stats.total_rejected = @ + 1,
              !.events = NotifyReject(@, B.orderListeners, 1, inb, reason)]

\* addOrder that rests a valid limit order on its side without matching it
addOrder_LimitRestsUnmatched(B, A, inb, conditions) ==
    IF ~validateOrder(B.ords[inb])
    THEN [book |-> rejectOrder(B, inb, "Invalid order parameters"),
          ret |-> FALSE]
    ELSE IF is_market(B.ords[inb])
         THEN LET r == processMarketOrder(B, A, inb, conditions)
              IN  [book |-> r.book, ret |-> r.filled]
         ELSE IF has_order(B.bids, inb) \/ has_order(B.asks, inb)
         THEN [book |-> B, ret |-> FALSE]
         ELSE IF is_buy(B.ords[inb])
         THEN [book |-> [B EXCEPT !.bids = OT_addOrder(@, B.ords, inb)],
               ret |-> FALSE]
         ELSE [book |-> [B EXCEPT !.asks = OT_addOrder(@, B.ords, inb)],
               ret |-> FALSE]

\* OrderBook::addOrder for a non-null order.  The result is [book, ret].
addOrder(B, A, inb, conditions) ==
    IF ~validateOrder(B.ords[inb])
    THEN [book |-> rejectOrder(B, inb, "Invalid order parameters"),
          ret |-> FALSE]
    ELSE IF is_market(B.ords[inb])
         THEN LET r == processMarketOrder(B, A, inb, conditions)
              IN  [book |-> r.book, ret |-> r.filled]
         ELSE [book |-> B, ret |-> FALSE]

\* what a call returned: nothing (void, or no call yet), a bool, a Quantity,
\* a plan
RetNone == [kind |-> "none", b |-> FALSE, q |-> 0]
RetBool(b) == [kind |-> "bool", b |-> b, q |-> 0]
RetQuantity(q) == [kind |-> "quantity", b |-> FALSE, q |-> q]
\* a plan of fills, kept as the quantity it fills
RetPlan(matches) ==
    [kind |-> "plan", b |-> FALSE, q |-> MatchedQuantity(matches)]

\* ------------------------------------------------------------ DepthTracker
\* DepthLevel(p, q, count); DepthLevel() and clear() give (0, 0, 0)
DepthLevel(p, q, count) == [price |-> p, quantity |-> q, order_count |-> count]

\* a DepthArray of n cleared levels; element i of the array is at i + 1
RECURSIVE ClearedLevels(_)
ClearedLevels(n) ==
    IF n = 0 THEN <<>> ELSE Append(ClearedLevels(n - 1), DepthLevel(0, 0, 0))

\* DepthTracker<MAX_LEVELS>::DepthTracker
NewDepthTracker(max_levels) ==
    [MAX_LEVELS |-> max_levels,
     bid_levels_ |-> ClearedLevels(max_levels),
     ask_levels_ |-> ClearedLevels(max_levels),
     bid_count_ |-> 0, ask_count_ |-> 0,
     changed_ |-> FALSE, changes_ |-> <<>>,
     prev_bid_levels_ |-> ClearedLevels(max_levels),
     prev_ask_levels_ |-> ClearedLevels(max_levels),
     prev_bid_count_ |-> 0, prev_ask_count_ |-> 0]

\* DepthTracker::save_previous_state
save_previous_state(D) ==
    [D EXCEPT !.prev_bid_levels_ = D.bid_levels_,
              !.prev_ask_levels_ = D.ask_levels_,
              !.prev_bid_count_ = D.bid_count_,
              !.prev_ask_count_ = D.ask_count_]

\* the loop of update_bid_side and update_ask_side over the tracker's
\* price_levels(), from the keys left on.  The result is [levels, level_idx].
RECURSIVE FillDepthLevels(_, _, _, _)
FillDepthLevels(T, keys, levels, level_idx) ==
    IF keys = <<>> \/ level_idx >= Len(levels)
    THEN [levels |-> levels, level_idx |-> level_idx]
    ELSE LET L == T.price_levels_[keys[1]] IN
         IF L.orders_ = <<>>
         THEN FillDepthLevels(T, Tail(keys), levels, level_idx)
         ELSE FillDepthLevels(T, Tail(keys),
                  [levels EXCEPT ![level_idx + 1] =
                       DepthLevel(keys[1], L.total_quantity_, L.order_count_)],
                  level_idx + 1)

\* update_bid_side that keeps the slots it does not overwrite
update_bid_side_TailKept(D, T) ==
    LET r == FillDepthLevels(T, LevelKeys(T), D.bid_levels_, 0)
    IN  [D EXCEPT !.bid_levels_ = r.levels, !.bid_count_ = r.level_idx]

\* DepthTracker::update_bid_side
update_bid_side(D, T) ==
    LET r == FillDepthLevels(T, LevelKeys(T), ClearedLevels(D.MAX_LEVELS), 0)
    IN  [D EXCEPT !.bid_levels_ = r.levels, !.bid_count_ = r.level_idx]

\* DepthTracker::update_ask_side
update_ask_side(D, T) ==
    LET r == FillDepthLevels(T, LevelKeys(T), ClearedLevels(D.MAX_LEVELS), 0)
    IN  [D EXCEPT !.ask_levels_ = r.levels, !.ask_count_ = r.level_idx]

\* one loop of detect_changes, from level i on (i counts from 0).  The
\* result is the change list.
RECURSIVE DetectLoop(_, _, _, _, _, _, _)
DetectLoop(is_bid, cur, cur_count, prev, prev_count, i, changes) ==
    IF i >= (IF cur_count >= prev_count THEN cur_count ELSE prev_count)
    THEN changes
    ELSE LET current == i < cur_count
             previous == i < prev_count
             c == cur[i + 1]
             q == prev[i + 1]
             level_changed == IF current /\ previous THEN c # q ELSE TRUE
             change ==
                 IF current /\ previous
                 THEN [is_bid |-> is_bid, level |-> i, price |-> c.price,
                       old_quantity |-> q.quantity, new_quantity |-> c.quantity,
                       old_order_count |-> q.order_count,
                       new_order_count |-> c.order_count]
                 ELSE IF current
                 THEN [is_bid |-> is_bid, level |-> i, price |-> c.price,
                       old_quantity |-> 0, new_quantity |-> c.quantity,
                       old_order_count |-> 0,
                       new_order_count |-> c.order_count]
                 ELSE [is_bid |-> is_bid, level |-> i, price |-> q.price,
                       old_quantity |-> q.quantity, new_quantity |-> 0,
                       old_order_count |-> q.order_count,
                       new_order_count |-> 0]
         IN  DetectLoop(is_bid, cur, cur_count, prev, prev_count, i + 1,
                        IF level_changed THEN Append(changes, change)
                        ELSE changes)

\* detect_changes that looks at the ask levels before the bid levels
detect_changes_AsksFirst(D) ==
    LET ask == DetectLoop(FALSE, D.ask_levels_, D.ask_count_,
                          D.prev_ask_levels_, D.prev_ask_count_, 0, D.changes_)
        all == DetectLoop(TRUE, D.bid_levels_, D.bid_count_,
                          D.prev_bid_levels_, D.prev_bid_count_, 0, ask)
    IN  [D EXCEPT !.changes_ = all,
                  !.changed_ = D.changed_ \/ all # D.changes_]

\* DepthTracker::detect_changes
detect_changes(D) ==
    LET bid == DetectLoop(TRUE, D.bid_levels_, D.bid_count_,
                          D.prev_bid_levels_, D.prev_bid_count_, 0, D.changes_)
        all == DetectLoop(FALSE, D.ask_levels_, D.ask_count_,
                          D.prev_ask_levels_, D.prev_ask_count_, 0, bid)
    IN  [D EXCEPT !.changes_ = all,
                  !.changed_ = D.changed_ \/ all # D.changes_]

\* update_from_tracker that does not clear the change tracking
update_from_tracker_ChangesKept(D, bid_tracker, ask_tracker) ==
    detect_changes(update_ask_side(update_bid_side(save_previous_state(D),
                                                   bid_tracker), ask_tracker))

\* DepthTracker::update_from_tracker
update_from_tracker(D, bid_tracker, ask_tracker) ==
    LET D1 == [save_previous_state(D) EXCEPT !.changed_ = FALSE,
                                             !.changes_ = <<>>]
    IN  detect_changes(update_ask_side(update_bid_side(D1, bid_tracker),
                                       ask_tracker))

\* DepthTracker::best_bid
best_bid(D) == IF D.bid_count_ > 0 THEN D.bid_levels_[1].price ELSE 0

\* DepthTracker::best_ask
best_ask(D) == IF D.ask_count_ > 0 THEN D.ask_levels_[1].price ELSE 0

\* DepthTracker::has_changed
has_changed(D) == D.changed_

\* ---------------------------------------------------------- client threads
Threads == 1 .. NumThreads

\* a thread that has not called yet.  order, conditions: the arguments of
\* its addOrder; matches, remaining, any_fill: the locals of matchBuyOrder;
\* i: the entry of matches the for loop is at
IdleThread ==
    [pc |-> "idle", order |-> 0, conditions |-> 0, matches |-> <<>>,
     i |-> 0, remaining |-> 0, any_fill |-> FALSE]

RECURSIVE IdleThreads(_)
IdleThreads(n) ==
    IF n = 0 THEN <<>> ELSE Append(IdleThreads(n - 1), IdleThread)

\* ------------------------------------------------------------------ state
VARIABLES
    orders,             \* the Order objects the clients have constructed
    tracker,            \* a free-standing OrderTracker object
    mBidTracker, mAskTracker, mStopBidTracker, mStopAskTracker,
    mMarketPrice, mLastTradePrice, mLastTradeQuantity,
    mStats,             \* OrderBookStats
    mPendingTrades,     \* std::vector<TradeExecution>
    mOrderListeners,    \* std::vector<OrderListenerPtr>
    mTradeListeners,    \* std::vector<TradeListenerPtr>
    events,             \* the calls the last OrderBook call made on listeners
    ret,                \* what the last call returned
    nOps,               \* calls made on the free-standing tracker
    fault,              \* the process has hit undefined behaviour
    mBookMutex,         \* std::recursive_mutex: the owning thread, 0 if free
    threads,            \* each client thread's position in its call
    serial,             \* the engine had the calls run one at a time
    depthTracker        \* a free-standing DepthTracker object

vars == <<orders, tracker, mBidTracker, mAskTracker, mStopBidTracker,
          mStopAskTracker, mMarketPrice, mLastTradePrice, mLastTradeQuantity,
          mStats, mPendingTrades, mOrderListeners, mTradeListeners, events,
          ret, nOps, fault, mBookMutex, threads, serial, depthTracker>>

\* the state of the client threads and of the depth tracker
threadVars == <<mBookMutex, threads, serial>>

bookVars == <<mBidTracker, mAskTracker, mStopBidTracker, mStopAskTracker,
              mMarketPrice, mLastTradePrice, mLastTradeQuantity, mStats,
              mPendingTrades, mOrderListeners, mTradeListeners, events>>

Created == 1 .. Len(orders)

\* OrderBookStats
NewStats ==
    [total_orders_added |-> 0, total_orders_cancelled |-> 0,
     total_orders_replaced |-> 0, total_trades |-> 0,
     total_volume |-> 0, total_rejected |-> 0]

\* OrderBook::OrderBook
InitBook ==
    /\ mBidTracker = NewTracker(TRUE)
    /\ mAskTracker = NewTracker(FALSE)
    /\ mStopBidTracker = NewTracker(TRUE)
    /\ mStopAskTracker = NewTracker(FALSE)
    /\ mMarketPrice = 0
    /\ mLastTradePrice = 0
    /\ mLastTradeQuantity = 0
    /\ mStats = NewStats
    /\ mPendingTrades = <<>>
    /\ mOrderListeners = <<>>
    /\ mTradeListeners = <<>>
    /\ events = <<>>

\* no thread has called, the mutex is free
InitThreads ==
    /\ mBookMutex = 0
    /\ threads = IdleThreads(NumThreads)
    /\ serial = [ords |-> <<>>, trades |-> <<>>, stats |-> NewStats,
                 market |-> 0, lastPrice |-> 0, lastQty |-> 0,
                 bids |-> NewTracker(TRUE), asks |-> NewTracker(FALSE),
                 orderListeners |-> <<>>, events |-> <<>>]

\* a tracker of either side, no orders constructed yet
Init ==
    /\ orders = <<>>
    /\ tracker \in {NewTracker(TRUE), NewTracker(FALSE)}
    /\ InitBook
    /\ ret = RetNone
    /\ nOps = 0
    /\ fault = FALSE
    /\ InitThreads
    /\ depthTracker = NewDepthTracker(1)

\* the engine alone: the free-standing tracker is not used
InitEngine ==
    /\ orders = <<>>
    /\ tracker = NewTracker(FALSE)
    /\ InitBook
    /\ ret = RetNone
    /\ nOps = 0
    /\ fault = FALSE
    /\ InitThreads
    /\ depthTracker = NewDepthTracker(1)

\* ------------------------------------------------------- client: new Order
\* Orders are constructed in non-decreasing order of their parameters: an
\* order's position in the pool is only its identity, so every pool is
\* reached up to a renaming of its orders.
OrderKey(o) ==
    LET sym == IF o.symbol_ = mSymbol THEN 0 ELSE 1
        side == IF o.side_ = "SELL" THEN 0 ELSE 1
        type == CASE o.order_type_ = "LIMIT" -> 0
                  [] o.order_type_ = "MARKET" -> 1
                  [] o.order_type_ = "STOP" -> 2
                  [] OTHER -> 3
        tif == CASE o.time_in_force_ = "GOOD_TILL_CANCELLED" -> 0
                 [] o.time_in_force_ = "IMMEDIATE_OR_CANCEL" -> 1
                 [] o.time_in_force_ = "FILL_OR_KILL" -> 2
                 [] OTHER -> 3
    IN  ((((sym * 2 + side) * 4 + type) * 16 + o.price_) * 16
            + o.quantity_) * 4 + tif

CreateOrder(sym, side, qty, price, type, tif) ==
    /\ ~fault
    /\ Len(orders) < MaxOrders
    /\ LET o == NewOrderRec(Len(orders) + 1, sym, side, qty, price, type, tif)
       IN  /\ orders # <<>> =>
                OrderKey(orders[Len(orders)]) <= OrderKey(o)
           /\ orders' = Append(orders, o)
    /\ ret' = RetNone
    /\ UNCHANGED <<tracker, bookVars, nOps, fault>>
    /\ UNCHANGED <<threadVars, depthTracker>>

\* the side of the free-standing tracker
TrackerSide == IF tracker.is_buy_side_ THEN "BUY" ELSE "SELL"

\* a limit order for the free-standing tracker
CreateLimitOrder ==
    \E qty \in 1 .. MaxQty, price \in 1 .. MaxPrice :
        CreateOrder(mSymbol, TrackerSide, qty, price, "LIMIT",
                    "GOOD_TILL_CANCELLED")

\* ---------------------------------------- OrderTracker through its methods
\* one more call on the tracker, leaving it as T, within the model's bounds
TrackerCall(T) ==
    /\ nOps < MaxOps
    /\ nOps' = nOps + 1
    /\ \A price \in DOMAIN T.price_levels_ :
        /\ Len(T.price_levels_[price].orders_) <= MaxLevelLen
        /\ T.price_levels_[price].total_quantity_ \in -MaxTotal .. MaxTotal

\* tracker.addOrder(order), order not indexed yet
TrackerAddOrder(p) ==
    /\ ~fault
    /\ ~has_order(tracker, orders[p].order_id_)
    /\ tracker' = OT_addOrder(tracker, orders, p)
    /\ TrackerCall(tracker')
    /\ ret' = RetBool(TRUE)
    /\ UNCHANGED <<orders, bookVars, fault>>
    /\ UNCHANGED <<threadVars, depthTracker>>

\* tracker.remove_order(order).  When the stored iterator is not
\* dereferenceable (its buffer was reallocated or freed, or it is past the
\* last element) the call is undefined: the process stops, or it reads some
\* order x through the stale slot and erases some element k of the level.
TrackerRemoveOrder(p) ==
    /\ ~fault
    /\ LET id == orders[p].order_id_ IN
       IF has_order(tracker, id)
          /\ tracker.order_locations_[id].price \in DOMAIN tracker.price_levels_
          /\ ~IterValid(tracker, tracker.order_locations_[id])
       THEN LET price == tracker.order_locations_[id].price
                L == tracker.price_levels_[price]
            IN  \/ /\ fault' = TRUE
                   /\ ret' = RetNone
                   /\ UNCHANGED tracker
                \/ \E x \in Created, k \in 1 .. Len(L.orders_) :
                       /\ tracker' = OT_remove_stale(tracker, orders, id, x, k)
                       /\ ret' = RetBool(TRUE)
                       /\ UNCHANGED fault
       ELSE LET r == OT_remove_order(tracker, orders, p) IN
            /\ tracker' = r.tracker
            /\ ret' = RetBool(r.ret)
            /\ UNCHANGED fault
    /\ TrackerCall(tracker')
    /\ UNCHANGED <<orders, bookVars>>
    /\ UNCHANGED <<threadVars, depthTracker>>

\* tracker.update_order_quantity(order, new_qty)
TrackerUpdateQuantity(p, new_qty) ==
    /\ ~fault
    /\ LET r == OT_update_order_quantity(tracker, orders, p, new_qty) IN
       /\ tracker' = r.tracker
       /\ orders' = r.ords
    /\ TrackerCall(tracker')
    /\ ret' = RetNone
    /\ UNCHANGED <<bookVars, fault>>
    /\ UNCHANGED <<threadVars, depthTracker>>

\* tracker.level_at_price(price)->fill_quantity(max_quantity)
TrackerFillQuantity(price, max_quantity) ==
    /\ ~fault
    /\ price \in DOMAIN tracker.price_levels_
    /\ \E r \in {PL_fill_quantity(tracker.price_levels_[price],
                                  BeginOperation(orders), max_quantity)} :
       /\ tracker' = [tracker EXCEPT !.price_levels_[price] = r.level]
       /\ orders' = r.ords
       /\ ret' = RetQuantity(r.filled)
    /\ TrackerCall(tracker')
    /\ UNCHANGED <<bookVars, fault>>
    /\ UNCHANGED <<threadVars, depthTracker>>

NextTracker ==
    \/ CreateLimitOrder
    \/ \E p \in Created : TrackerAddOrder(p)
    \/ \E p \in Created : TrackerRemoveOrder(p)
    \/ \E p \in Created, q \in 0 .. MaxQty : TrackerUpdateQuantity(p, q)
    \/ \E price \in 1 .. MaxPrice, q \in 1 .. MaxQty :
           TrackerFillQuantity(price, q)

SpecTracker == Init /\ [][NextTracker]_vars

\* ------------------------------------------ the tracker asked for match plans
\* tracker.matchQuantity(limit_price, max_quantity)
TrackerMatchQuantity(limit_price, max_quantity) ==
    /\ ~fault
    /\ \E r \in {OT_matchQuantity(tracker, orders, limit_price, max_quantity)} :
       /\ tracker' = r.tracker
       /\ orders' = r.ords
       /\ ret' = RetPlan(r.matches)
    /\ TrackerCall(tracker')
    /\ UNCHANGED <<bookVars, fault>>
    /\ UNCHANGED <<threadVars, depthTracker>>

\* orders rest in the tracker, the head of a level is filled one unit at a
\* time, and plans are asked for in between
NextPlan ==
    \/ Len(orders) < MaxPlanOrders /\ CreateLimitOrder
    \/ \E p \in Created : TrackerAddOrder(p)
    \/ \E price \in 1 .. MaxPrice : TrackerFillQuantity(price, 1)
    \/ \E limit_price \in 1 .. MaxPrice, max_quantity \in 1 .. MaxQty :
           TrackerMatchQuantity(limit_price, max_quantity)

SpecPlan == Init /\ [][NextPlan]_vars

\* ----------------------------------------------- levels filled by quantity
\* orders rest in the tracker, are amended down to nothing open, and levels
\* are filled up to a quantity
NextFill ==
    \/ Len(orders) < MaxPlanOrders /\ CreateLimitOrder
    \/ \E p \in Created : TrackerAddOrder(p)
    \/ \E p \in Created : TrackerUpdateQuantity(p, 0)
    \/ \E price \in 1 .. MaxPrice, q \in 1 .. MaxQty :
           TrackerFillQuantity(price, q)

SpecFill == Init /\ [][NextFill]_vars

\* ------------------------------------ DepthTracker fed from an OrderTracker
\* a tracker of either side and a depth tracker of 1 .. MaxDepthLevels levels
InitDepth ==
    /\ orders = <<>>
    /\ tracker \in {NewTracker(TRUE), NewTracker(FALSE)}
    /\ InitBook
    /\ ret = RetNone
    /\ nOps = 0
    /\ fault = FALSE
    /\ InitThreads
    /\ depthTracker \in {NewDepthTracker(n) : n \in 1 .. MaxDepthLevels}

\* the book the depth is taken of: the free-standing tracker is its bid or
\* its ask side, by the tracker's side, and the other side holds nothing
BidTracker == IF tracker.is_buy_side_ THEN tracker ELSE NewTracker(TRUE)
AskTracker == IF tracker.is_buy_side_ THEN NewTracker(FALSE) ELSE tracker

\* depthTracker.update_from_tracker(bid_tracker, ask_tracker)
UpdateFromTracker ==
    /\ ~fault
    /\ depthTracker' = update_from_tracker(depthTracker, BidTracker, AskTracker)
    /\ TrackerCall(tracker)
    /\ ret' = RetNone
    /\ UNCHANGED <<orders, tracker, bookVars, fault, threadVars>>

\* a limit order of quantity 1 for the free-standing tracker
CreateUnitOrder ==
    \E price \in 1 .. MaxPrice :
        CreateOrder(mSymbol, TrackerSide, 1, price, "LIMIT",
                    "GOOD_TILL_CANCELLED")

NextDepth ==
    \/ CreateUnitOrder
    \/ \E p \in Created : TrackerAddOrder(p)
    \/ \E price \in 1 .. MaxPrice, q \in 1 .. MaxQty :
           TrackerFillQuantity(price, q)
    \/ UpdateFromTracker

SpecDepth == InitDepth /\ [][NextDepth]_vars

\* ------------------------------------------------- OrderBook's operations
\* the engine's mutable state as one value
Book ==
    [ords |-> BeginOperation(orders), trades |-> mPendingTrades,
     stats |-> mStats,
     market |-> mMarketPrice, lastPrice |-> mLastTradePrice,
     lastQty |-> mLastTradeQuantity,
     bids |-> mBidTracker, asks |-> mAskTracker,
     orderListeners |-> mOrderListeners, events |-> <<>>]

\* book.addOrder(order, conditions)
AddOrder(p, conditions) ==
    /\ ~fault
    /\ \E r \in {addOrder(Book, mAskTracker, p, conditions)} :
       /\ Len(r.book.trades) <= MaxTrades
       /\ r.book.stats.total_rejected <= MaxRejected
       /\ orders' = r.book.ords
       /\ mPendingTrades' = r.book.trades
       /\ mStats' = r.book.stats
       /\ mMarketPrice' = r.book.market
       /\ mLastTradePrice' = r.book.lastPrice
       /\ mLastTradeQuantity' = r.book.lastQty
       /\ mBidTracker' = r.book.bids
       /\ mAskTracker' = r.book.asks
       /\ events' = r.book.events
       /\ ret' = RetBool(r.ret)
    /\ UNCHANGED <<tracker, mStopBidTracker, mStopAskTracker,
                   mOrderListeners, mTradeListeners, nOps, fault>>
    /\ UNCHANGED <<threadVars, depthTracker>>

\* The ask side with resting orders.  OrderBook has no operation that rests
\* an order (addOrder leaves limit orders to a todo), so the resting orders
\* are put into mAskTracker by OrderTracker::addOrder, each order once.
RestAsk(p) ==
    /\ ~fault
    /\ orders[p].side_ = "SELL"
    /\ orders[p].order_type_ = "LIMIT"
    /\ ~has_order(mAskTracker, orders[p].order_id_)
    /\ mAskTracker' = OT_addOrder(mAskTracker, orders, p)
    /\ ret' = RetBool(TRUE)
    /\ UNCHANGED <<orders, tracker, mBidTracker, mStopBidTracker,
                   mStopAskTracker, mMarketPrice, mLastTradePrice,
                   mLastTradeQuantity, mStats, mPendingTrades,
                   mOrderListeners, mTradeListeners, events, nOps, fault>>
    /\ UNCHANGED <<threadVars, depthTracker>>

CreateSellLimit ==
    \E qty \in 1 .. MaxQty, price \in 1 .. MaxPrice :
        CreateOrder(mSymbol, "SELL", qty, price, "LIMIT", "GOOD_TILL_CANCELLED")

CreateMarketBuy ==
    \E qty \in 1 .. MaxQty :
        CreateOrder(mSymbol, "BUY", qty, MARKET_PRICE, "MARKET",
                    "GOOD_TILL_CANCELLED")

\* the incoming orders are the market buys; the sell orders are the resting
\* ones
NextMatch ==
    \/ CreateSellLimit
    \/ CreateMarketBuy
    \/ \E p \in Created : RestAsk(p)
    \/ \E p \in Created, c \in {NO_CONDITIONS, ALL_OR_NONE} :
           is_buy(orders[p]) /\ AddOrder(p, c)

SpecMatch == InitEngine /\ [][NextMatch]_vars

\* the same engine with fill-or-kill market buys as the incoming orders
CreateFillOrKillBuy ==
    \E qty \in 1 .. MaxQty :
        CreateOrder(mSymbol, "BUY", qty, MARKET_PRICE, "MARKET", "FILL_OR_KILL")

NextFillOrKill ==
    \/ CreateSellLimit
    \/ CreateFillOrKillBuy
    \/ \E p \in Created : RestAsk(p)
    \/ \E p \in Created, c \in {NO_CONDITIONS, ALL_OR_NONE} :
           is_buy(orders[p]) /\ AddOrder(p, c)

SpecFillOrKill == InitEngine /\ [][NextFillOrKill]_vars

\* ------------------------------------- OrderBook through its own interface
\* what validateOrder can find wrong with an order
Defects == {"none", "symbol", "quantity", "open_quantity", "price_zero",
            "price_negative", "stop_price_zero", "stop_price_negative"}

\* An order as a client builds it: the constructor, then set_stop_price for
\* a stop order and set_open_quantity for an open quantity above the
\* original one.  It is sound or has one defect.
ClientOrder(id, side, type, tif, defect) ==
    LET sym == IF defect = "symbol" THEN "OTHER" ELSE mSymbol
        qty == IF defect = "quantity" THEN 0 ELSE 1
        price == CASE type = "MARKET" -> MARKET_PRICE
                   [] defect = "price_zero" -> 0
                   [] defect = "price_negative" -> -1
                   [] OTHER -> 1
        stop == CASE ~(type \in {"STOP", "STOP_LIMIT"}) -> 0
                  [] defect = "stop_price_zero" -> 0
                  [] defect = "stop_price_negative" -> -1
                  [] OTHER -> 1
        o == NewOrderRec(id, sym, side, qty, price, type, tif)
    IN  [o EXCEPT !.stop_price_ = stop,
                  !.open_quantity_ = IF defect = "open_quantity"
                                     THEN qty + 1 ELSE qty]

CreateBookOrder ==
    /\ ~fault
    /\ Len(orders) < MaxBookOrders
    /\ \E side \in {"BUY", "SELL"},
          type \in {"LIMIT", "MARKET", "STOP", "STOP_LIMIT"},
          tif \in {"GOOD_TILL_CANCELLED", "DAY"},
          defect \in Defects :
           LET o == ClientOrder(Len(orders) + 1, side, type, tif, defect)
           IN  /\ tif = "DAY" => type = "LIMIT"
               /\ orders # <<>> =>
                    OrderKey(orders[Len(orders)]) <= OrderKey(o)
               /\ orders' = Append(orders, o)
    /\ UNCHANGED <<tracker, bookVars, ret, nOps, fault>>
    /\ UNCHANGED <<threadVars, depthTracker>>

\* book.addOrderListener(listener); a listener is named by its place in the
\* registry
AddOrderListener ==
    /\ ~fault
    /\ Len(mOrderListeners) < MaxListeners
    /\ mOrderListeners' = Append(mOrderListeners, Len(mOrderListeners) + 1)
    /\ events' = <<>>
    /\ ret' = RetNone
    /\ UNCHANGED <<orders, tracker, mBidTracker, mAskTracker, mStopBidTracker,
                   mStopAskTracker, mMarketPrice, mLastTradePrice,
                   mLastTradeQuantity, mStats, mPendingTrades,
                   mTradeListeners, nOps, fault>>
    /\ UNCHANGED <<threadVars, depthTracker>>

\* book.addTradeListener(listener)
AddTradeListener ==
    /\ ~fault
    /\ Len(mTradeListeners) < MaxListeners
    /\ mTradeListeners' = Append(mTradeListeners, Len(mTradeListeners) + 1)
    /\ events' = <<>>
    /\ ret' = RetNone
    /\ UNCHANGED <<orders, tracker, mBidTracker, mAskTracker, mStopBidTracker,
                   mStopAskTracker, mMarketPrice, mLastTradePrice,
                   mLastTradeQuantity, mStats, mPendingTrades,
                   mOrderListeners, nOps, fault>>
    /\ UNCHANGED <<threadVars, depthTracker>>

\* book.addOrder(nullptr, conditions).  validateOrder returns false and
\* rejectOrder calls set_status through the null pointer, which is
\* undefined: the process stops there, or the store has no effect and
\* rejectOrder goes on to count the rejection and to call the listeners.
AddNullOrder ==
    /\ ~fault
    /\ \/ /\ fault' = TRUE
          /\ ret' = RetNone
          /\ UNCHANGED <<mStats, events>>
       \/ /\ mStats.total_rejected < MaxRejected
          /\ mStats' = [mStats EXCEPT !.total_rejected = @ + 1]
          /\ events' = NotifyReject(<<>>, mOrderListeners, 1, NullOrder,
                                    "Invalid order parameters")
          /\ ret' = RetBool(FALSE)
          /\ UNCHANGED fault
    /\ UNCHANGED <<orders, tracker, mBidTracker, mAskTracker, mStopBidTracker,
                   mStopAskTracker, mMarketPrice, mLastTradePrice,
                   mLastTradeQuantity, mPendingTrades, mOrderListeners,
                   mTradeListeners, nOps>>
    /\ UNCHANGED <<threadVars, depthTracker>>

\* whether market price p activates stop order o
StopTriggered(o, p) ==
    IF is_buy(o) THEN p >= o.stop_price_ ELSE p <= o.stop_price_

\* check_stop_orders on one stop tracker: the orders n, n - 1, ..., 1 that
\* market price p activates leave the tracker
RECURSIVE check_stop_orders(_, _, _, _)
check_stop_orders(T, ords, p, n) ==
    IF n = 0 THEN T
    ELSE check_stop_orders(
             IF has_order(T, ords[n].order_id_) /\ StopTriggered(ords[n], p)
             THEN OT_remove_order(T, ords, n).tracker ELSE T,
             ords, p, n - 1)

\* book.setmarketprice(price)
SetMarketPrice(price) ==
    /\ ~fault
    /\ mMarketPrice' = price
    /\ mStopBidTracker' =
           check_stop_orders(mStopBidTracker, orders, price, Len(orders))
    /\ mStopAskTracker' =
           check_stop_orders(mStopAskTracker, orders, price, Len(orders))
    /\ events' = <<>>
    /\ ret' = RetNone
    /\ UNCHANGED <<orders, tracker, mBidTracker, mAskTracker,
                   mLastTradePrice, mLastTradeQuantity, mStats,
                   mPendingTrades, mOrderListeners, mTradeListeners,
                   nOps, fault>>
    /\ UNCHANGED <<threadVars, depthTracker>>

NextBook ==
    \/ CreateBookOrder
    \/ AddOrderListener
    \/ \E p \in Created, c \in {NO_CONDITIONS, ALL_OR_NONE} : AddOrder(p, c)
    \/ AddNullOrder
    \/ \E price \in 1 .. MaxPrice : SetMarketPrice(price)

SpecBook == InitEngine /\ [][NextBook]_vars

\* the same interface with non-null orders only and no market price update
NextReject ==
    \/ CreateBookOrder
    \/ AddOrderListener
    \/ \E p \in Created, c \in {NO_CONDITIONS, ALL_OR_NONE} : AddOrder(p, c)

SpecReject == InitEngine /\ [][NextReject]_vars

\* Every public operation of the OrderBook.  The orders are the ones a
\* client builds, sound or with a quantity of 0, good till cancelled; each
\* registry takes MaxPublicListeners listeners.
CreatePublicOrder ==
    /\ ~fault
    /\ Len(orders) < MaxBookOrders
    /\ \E side \in {"BUY", "SELL"},
          type \in {"LIMIT", "MARKET", "STOP", "STOP_LIMIT"},
          defect \in {"none", "quantity"} :
           LET o == ClientOrder(Len(orders) + 1, side, type,
                                "GOOD_TILL_CANCELLED", defect)
           IN  /\ orders # <<>> =>
                    OrderKey(orders[Len(orders)]) <= OrderKey(o)
               /\ orders' = Append(orders, o)
    /\ UNCHANGED <<tracker, bookVars, ret, nOps, fault>>
    /\ UNCHANGED <<threadVars, depthTracker>>

NextPublic ==
    \/ CreatePublicOrder
    \/ Len(mOrderListeners) < MaxPublicListeners /\ AddOrderListener
    \/ Len(mTradeListeners) < MaxPublicListeners /\ AddTradeListener
    \/ \E p \in Created, c \in {NO_CONDITIONS, ALL_OR_NONE} : AddOrder(p, c)
    \/ AddNullOrder
    \/ \E price \in 1 .. MaxPrice : SetMarketPrice(price)

SpecPublic == InitEngine /\ [][NextPublic]_vars

\* The bid side with resting orders, put there by OrderTracker::addOrder as
\* RestAsk does for the ask side, and market sells as the incoming orders.
RestBid(p) ==
    /\ ~fault
    /\ orders[p].side_ = "BUY"
    /\ orders[p].order_type_ = "LIMIT"
    /\ ~has_order(mBidTracker, orders[p].order_id_)
    /\ mBidTracker' = OT_addOrder(mBidTracker, orders, p)
    /\ ret' = RetBool(TRUE)
    /\ UNCHANGED <<orders, tracker, mAskTracker, mStopBidTracker,
                   mStopAskTracker, mMarketPrice, mLastTradePrice,
                   mLastTradeQuantity, mStats, mPendingTrades,
                   mOrderListeners, mTradeListeners, events, nOps, fault>>
    /\ UNCHANGED <<threadVars, depthTracker>>

CreateBuyLimit ==
    \E qty \in 1 .. MaxQty, price \in 1 .. MaxPrice :
        CreateOrder(mSymbol, "BUY", qty, price, "LIMIT", "GOOD_TILL_CANCELLED")

CreateMarketSell ==
    \E qty \in 1 .. MaxQty :
        CreateOrder(mSymbol, "SELL", qty, MARKET_PRICE, "MARKET",
                    "GOOD_TILL_CANCELLED")

NextSell ==
    \/ CreateMarketSell
    \/ CreateBuyLimit
    \/ \E p \in Created : RestBid(p)
    \/ \E p \in Created, c \in {NO_CONDITIONS, ALL_OR_NONE} :
           ~is_buy(orders[p]) /\ AddOrder(p, c)

SpecSell == InitEngine /\ [][NextSell]_vars

\* the lowest ask price is above the highest bid price, or a side is empty
Uncrossed(bids, asks) ==
    \A b \in DOMAIN bids.price_levels_, a \in DOMAIN asks.price_levels_ : a > b

\* Limit orders of both sides submitted through addOrder, over a book whose
\* resting orders are put there by OrderTracker::addOrder, none of them
\* crossing the other side.
RestUncrossed(p) ==
    /\ RestBid(p) \/ RestAsk(p)
    /\ Uncrossed(mBidTracker', mAskTracker')

\* a limit order of quantity 1: only its side and price bear on crossing
CreateUnitLimit ==
    \E side \in {"BUY", "SELL"}, price \in 1 .. MaxPrice :
        CreateOrder(mSymbol, side, 1, price, "LIMIT", "GOOD_TILL_CANCELLED")

NextCross ==
    \/ CreateUnitLimit
    \/ \E p \in Created : RestUncrossed(p)
    \/ \E p \in Created, c \in {NO_CONDITIONS, ALL_OR_NONE} : AddOrder(p, c)

SpecCross == InitEngine /\ [][NextCross]_vars

\* ------------------------------------- DepthTracker fed from two trackers
\* the bid side is mBidTracker, the ask side the free-standing tracker, and
\* the depth tracker has 1 .. MaxDepthLevels levels
InitChanges ==
    /\ orders = <<>>
    /\ tracker = NewTracker(FALSE)
    /\ InitBook
    /\ ret = RetNone
    /\ nOps = 0
    /\ fault = FALSE
    /\ InitThreads
    /\ depthTracker \in {NewDepthTracker(n) : n \in 1 .. MaxDepthLevels}

\* depthTracker.update_from_tracker(mBidTracker, tracker)
UpdateFromTrackers ==
    /\ ~fault
    /\ depthTracker' = update_from_tracker(depthTracker, mBidTracker, tracker)
    /\ TrackerCall(tracker)
    /\ ret' = RetNone
    /\ UNCHANGED <<orders, tracker, bookVars, fault, threadVars>>

\* bids rest and stay, asks rest and are filled at their level, and the
\* depth is taken in between
NextChanges ==
    \/ Len(orders) < MaxPlanOrders /\ CreateUnitLimit
    \/ \E p \in Created : RestBid(p)
    \/ \E p \in Created : orders[p].side_ = "SELL" /\ TrackerAddOrder(p)
    \/ \E price \in 1 .. MaxPrice, q \in 1 .. MaxQty :
           TrackerFillQuantity(price, q)
    \/ UpdateFromTrackers

SpecChanges == InitChanges /\ [][NextChanges]_vars

\* market buys against resting asks, with trade listeners registered
NextListen ==
    \/ NextMatch
    \/ AddTradeListener

SpecListen == InitEngine /\ [][NextListen]_vars

\* -------------------------------------- OrderBook called by several threads
\* Each thread makes one call.  A call that takes mBookMutex is a sequence
\* of steps of its thread; the orders and the resting asks are set up
\* before the first call.
NoCallYet == \A t \in Threads : threads[t].pc = "idle"

\* the engine's state as one value, as the running calls see it
BookNow ==
    [ords |-> orders, trades |-> mPendingTrades, stats |-> mStats,
     market |-> mMarketPrice, lastPrice |-> mLastTradePrice,
     lastQty |-> mLastTradeQuantity,
     bids |-> mBidTracker, asks |-> mAskTracker,
     orderListeners |-> mOrderListeners, events |-> events]

\* the engine's state becomes B
StoreBook(B) ==
    /\ orders' = B.ords
    /\ mPendingTrades' = B.trades
    /\ mStats' = B.stats
    /\ mMarketPrice' = B.market
    /\ mLastTradePrice' = B.lastPrice
    /\ mLastTradeQuantity' = B.lastQty
    /\ events' = B.events

\* the state the calls made so far leave when run one at a time
SerialBefore == IF NoCallYet THEN BookNow ELSE serial

\* Threads are interchangeable: thread t makes its call once the threads
\* before it have made theirs.
NextToCall(t) ==
    /\ threads[t].pc = "idle"
    /\ \A u \in 1 .. t - 1 : threads[u].pc # "idle"

\* a lock_guard that does not wait for the mutex
lock_guard_NoExclusion(mutex, t) == TRUE

\* std::lock_guard<std::recursive_mutex> lock(mBookMutex) in thread t
\* returns: the mutex is free or t owns it
lock_guard(mutex, t) == mutex \in {0, t}

\* thread t calls book.addOrder(order p, conditions) and takes the lock
ThreadAddOrder(t, p, conditions) ==
    /\ ~fault
    /\ NextToCall(t)
    /\ lock_guard(mBookMutex, t)
    /\ mBookMutex' = t
    /\ threads' = [threads EXCEPT ![t] =
                       [IdleThread EXCEPT !.pc = "validate", !.order = p,
                                          !.conditions = conditions]]
    /\ LET r == addOrder([SerialBefore EXCEPT !.ords = BeginOperation(@),
                                              !.events = <<>>],
                         mAskTracker, p, conditions)
       IN  /\ Len(r.book.trades) <= MaxTrades
           /\ r.book.stats.total_rejected <= MaxRejected
           /\ serial' = r.book
    /\ orders' = BeginOperation(orders)
    /\ events' = <<>>
    /\ UNCHANGED <<tracker, mBidTracker, mAskTracker, mStopBidTracker,
                   mStopAskTracker, mMarketPrice, mLastTradePrice,
                   mLastTradeQuantity, mStats, mPendingTrades,
                   mOrderListeners, mTradeListeners, ret, nOps, fault,
                   depthTracker>>

\* addOrder after the lock: validateOrder, then rejectOrder or the way into
\* processMarketOrder; for a market buy, matchBuyOrder up to the plan
ThreadValidate(t) ==
    /\ ~fault
    /\ threads[t].pc = "validate"
    /\ LET p == threads[t].order
           o == orders[p]
       IN  IF ~validateOrder(o)
           THEN /\ StoreBook(rejectOrder(BookNow, p, "Invalid order parameters"))
                /\ threads' = [threads EXCEPT ![t].pc = "return"]
           ELSE /\ UNCHANGED <<orders, mPendingTrades, mStats, mMarketPrice,
                               mLastTradePrice, mLastTradeQuantity, events>>
                /\ threads' =
                     IF ~is_market(o)
                     THEN [threads EXCEPT ![t].pc = "return"]
                     ELSE IF ~is_buy(o)
                     THEN [threads EXCEPT ![t].pc = "cancel"]
                     ELSE [threads EXCEPT
                              ![t].pc = "match",
                              ![t].remaining = o.open_quantity_,
                              ![t].matches =
                                  matchQuantity(mAskTracker, orders, PriceMax,
                                                o.open_quantity_),
                              ![t].i = 1]
    /\ UNCHANGED <<tracker, mBidTracker, mAskTracker, mStopBidTracker,
                   mStopAskTracker, mOrderListeners, mTradeListeners, ret,
                   nOps, fault, mBookMutex, serial, depthTracker>>

\* one iteration of matchBuyOrder's for loop, or its end
ThreadMatch(t) ==
    /\ ~fault
    /\ threads[t].pc = "match"
    /\ LET th == threads[t] IN
       IF th.i > Len(th.matches) \/ th.remaining = 0
       THEN /\ threads' = [threads EXCEPT ![t].pc = "cancel"]
            /\ UNCHANGED <<orders, mPendingTrades, mStats, mMarketPrice,
                           mLastTradePrice, mLastTradeQuantity, events>>
       ELSE LET r == MatchLoop(BookNow, th.order, th.conditions,
                               SubSeq(th.matches, 1, th.i), th.i,
                               th.remaining, th.any_fill)
                traded == Len(r.book.trades) > Len(mPendingTrades)
                fillQty == IF traded
                           THEN r.book.trades[Len(r.book.trades)].quantity
                           ELSE 0
            IN  /\ Len(r.book.trades) <= MaxTrades
                /\ StoreBook(r.book)
                /\ threads' = [threads EXCEPT
                                  ![t].i = @ + 1,
                                  ![t].remaining = @ - fillQty,
                                  ![t].any_fill = r.any_fill]
    /\ UNCHANGED <<tracker, mBidTracker, mAskTracker, mStopBidTracker,
                   mStopAskTracker, mOrderListeners, mTradeListeners, ret,
                   nOps, fault, mBookMutex, serial, depthTracker>>

\* the end of processMarketOrder: what is left open is cancelled
ThreadCancel(t) ==
    /\ ~fault
    /\ threads[t].pc = "cancel"
    /\ orders' = IF orders[threads[t].order].open_quantity_ # 0
                 THEN set_status(orders, threads[t].order, "CANCELLED")
                 ELSE orders
    /\ threads' = [threads EXCEPT ![t].pc = "return"]
    /\ UNCHANGED <<tracker, bookVars, ret, nOps, fault, mBookMutex, serial,
                   depthTracker>>

\* addOrder returns and the lock_guard releases the mutex
ThreadReturn(t) ==
    /\ ~fault
    /\ threads[t].pc = "return"
    /\ ret' = RetBool(threads[t].any_fill)
    /\ mBookMutex' = 0
    /\ threads' = [threads EXCEPT ![t].pc = "done"]
    /\ UNCHANGED <<orders, tracker, bookVars, nOps, fault, serial,
                   depthTracker>>

\* thread t calls book.addOrderListener(listener) and takes the lock
ThreadAddOrderListener(t) ==
    /\ ~fault
    /\ NextToCall(t)
    /\ Len(SerialBefore.orderListeners) < MaxListeners
    /\ lock_guard(mBookMutex, t)
    /\ mBookMutex' = t
    /\ threads' = [threads EXCEPT ![t].pc = "push_back"]
    /\ serial' = [SerialBefore EXCEPT
                     !.ords = BeginOperation(@),
                     !.orderListeners = Append(@, Len(@) + 1),
                     !.events = <<>>]
    /\ orders' = BeginOperation(orders)
    /\ events' = <<>>
    /\ UNCHANGED <<tracker, mBidTracker, mAskTracker, mStopBidTracker,
                   mStopAskTracker, mMarketPrice, mLastTradePrice,
                   mLastTradeQuantity, mStats, mPendingTrades,
                   mOrderListeners, mTradeListeners, ret, nOps, fault,
                   depthTracker>>

\* mOrderListeners.push_back(listener), then the mutex is released
ThreadPushListener(t) ==
    /\ ~fault
    /\ threads[t].pc = "push_back"
    /\ mOrderListeners' = Append(mOrderListeners, Len(mOrderListeners) + 1)
    /\ mBookMutex' = 0
    /\ ret' = RetNone
    /\ threads' = [threads EXCEPT ![t].pc = "done"]
    /\ UNCHANGED <<orders, tracker, mBidTracker, mAskTracker, mStopBidTracker,
                   mStopAskTracker, mMarketPrice, mLastTradePrice,
                   mLastTradeQuantity, mStats, mPendingTrades,
                   mTradeListeners, events, nOps, fault, serial,
                   depthTracker>>

\* thread t calls book.setmarketprice(price), which takes no lock
ThreadSetMarketPrice(t, price) ==
    /\ ~fault
    /\ NextToCall(t)
    /\ mMarketPrice' = price
    /\ mStopBidTracker' =
           check_stop_orders(mStopBidTracker, orders, price, Len(orders))
    /\ mStopAskTracker' =
           check_stop_orders(mStopAskTracker, orders, price, Len(orders))
    /\ threads' = [threads EXCEPT ![t].pc = "done"]
    /\ serial' = [SerialBefore EXCEPT !.market = price]
    /\ ret' = RetNone
    /\ UNCHANGED <<orders, tracker, mBidTracker, mAskTracker,
                   mLastTradePrice, mLastTradeQuantity, mStats,
                   mPendingTrades, mOrderListeners, mTradeListeners, events,
                   nOps, fault, mBookMutex, depthTracker>>

\* an order the engine rejects: a market buy for another symbol
CreateForeignBuy ==
    CreateOrder("OTHER", "BUY", 1, MARKET_PRICE, "MARKET",
                "GOOD_TILL_CANCELLED")

\* the orders and the resting asks are there before the first call
ThreadSetup ==
    /\ NoCallYet
    /\ \/ CreateSellLimit
       \/ CreateMarketBuy
       \/ CreateForeignBuy
       \/ \E p \in Created : RestAsk(p)

NextThreads ==
    \/ ThreadSetup
    \/ \E t \in Threads, p \in Created :
           is_buy(orders[p]) /\ ThreadAddOrder(t, p, NO_CONDITIONS)
    \/ \E t \in Threads : ThreadValidate(t)
    \/ \E t \in Threads : ThreadMatch(t)
    \/ \E t \in Threads : ThreadCancel(t)
    \/ \E t \in Threads : ThreadReturn(t)
    \/ \E t \in Threads : ThreadAddOrderListener(t)
    \/ \E t \in Threads : ThreadPushListener(t)

SpecThreads == InitEngine /\ [][NextThreads]_vars

\* the same threads, and threads that call setmarketprice
NextRace ==
    \/ NextThreads
    \/ \E t \in Threads, price \in 1 .. MaxPrice : ThreadSetMarketPrice(t, price)

SpecRace == InitEngine /\ [][NextRace]_vars

\* ------------------------------------- the engine's statistics and its log
\* market buys for the book's symbol and for another one, against resting
\* asks
NextStats ==
    \/ NextMatch
    \/ CreateForeignBuy

SpecStats == InitEngine /\ [][NextStats]_vars

\* ----------------------------------------------------------------- claims
\* the trades the step has appended to mPendingTrades
NewTrades ==
    SubSeq(mPendingTrades', Len(mPendingTrades) + 1, Len(mPendingTrades'))

\* sum of the quantities of the first n trade records that name order p
RECURSIVE FilledBefore(_, _)
FilledBefore(p, n) ==
    IF n = 0 THEN 0
    ELSE FilledBefore(p, n - 1)
         + (IF p \in {mPendingTrades[n].inbound_order,
                      mPendingTrades[n].resting_order}
            THEN mPendingTrades[n].quantity ELSE 0)

Filled(p) == FilledBefore(p, Len(mPendingTrades))

\* C1: quantity conservation.  Whenever addOrder has returned, every order,
\* inbound or resting, has open quantity plus the quantities of all trade
\* records that name it equal to its original quantity.
C1_QuantityConservation ==
    \A p \in Created :
        orders[p].open_quantity_ + Filled(p) = orders[p].quantity_

\* a resting order has been filled in part and another completely
C1_Witness ==
    /\ \E p \in Created :
           /\ has_order(mAskTracker, p)
           /\ orders[p].open_quantity_ # 0
           /\ Filled(p) # 0
    /\ \E p \in Created :
           /\ has_order(mAskTracker, p)
           /\ orders[p].open_quantity_ = 0
    /\ \E p \in Created : is_market(orders[p]) /\ Filled(p) = orders[p].quantity_

\* C2: price-time priority.  OrderTracker.addOrder puts an order behind the
\* orders already resting at its price, and a resting order B is named in a
\* trade only when every order A resting ahead of it at the same price has
\* been filled completely by the trades recorded before that one.
C2_PriceTimePriority ==
    [][/\ \A p \in Created :
              has_order(mAskTracker', p) /\ ~has_order(mAskTracker, p) =>
                  LET price == orders[p].price_
                      old == IF price \in DOMAIN mAskTracker.price_levels_
                             THEN mAskTracker.price_levels_[price].orders_
                             ELSE <<>>
                  IN  mAskTracker'.price_levels_[price].orders_ = Append(old, p)
       /\ \A price \in DOMAIN mAskTracker'.price_levels_ :
              LET os == mAskTracker'.price_levels_[price].orders_ IN
              \A i, j \in 1 .. Len(os) :
                  i < j =>
                      \A k \in 1 .. Len(mPendingTrades') :
                          mPendingTrades'[k].resting_order = os[j] =>
                              LET before == SubSeq(mPendingTrades', 1, k - 1)
                                  mine == SelectSeq(before,
                                      LAMBDA t : t.resting_order = os[i])
                              IN  /\ mine # <<>>
                                  /\ orders'[os[i]].open_quantity_ = 0
                                  /\ orders'[os[i]].status_ = "FILLED"
      ]_vars

\* the second of two orders resting at one price has traded
C2_Witness ==
    \E price \in DOMAIN mAskTracker.price_levels_ :
        LET os == mAskTracker.price_levels_[price].orders_ IN
        /\ Len(os) >= 2
        /\ \E k \in 1 .. Len(mPendingTrades) :
               /\ mPendingTrades[k].resting_order = os[2]
               /\ mPendingTrades[k].quantity # 0

\* C3: best-price monotonicity.  The trades of one addOrder are each priced
\* at the resting order's price, and their prices never decrease when the
\* inbound order buys and never increase when it sells.
C3_BestPriceMonotonic ==
    [][\A k \in 1 .. Len(NewTrades) :
           /\ NewTrades[k].price = orders[NewTrades[k].resting_order].price_
           /\ k > 1 =>
                 IF is_buy(orders[NewTrades[k].inbound_order])
                 THEN NewTrades[k - 1].price <= NewTrades[k].price
                 ELSE NewTrades[k - 1].price >= NewTrades[k].price
      ]_vars

\* one inbound order has traded at two prices, the lower one first
C3_Witness ==
    \E k \in 1 .. Len(mPendingTrades) - 1 :
        /\ mPendingTrades[k].inbound_order = mPendingTrades[k + 1].inbound_order
        /\ mPendingTrades[k].flags = FILL_PARTIAL
        /\ mPendingTrades[k].price < mPendingTrades[k + 1].price

\* sum of the open quantities of the orders in a level
RECURSIVE OpenSum(_, _)
OpenSum(os, ords) ==
    IF os = <<>> THEN 0
    ELSE ords[os[1]].open_quantity_ + OpenSum(Tail(os), ords)

AggregatesConsistent(T) ==
    \A price \in DOMAIN T.price_levels_ :
        LET L == T.price_levels_[price] IN
        /\ L.total_quantity_ = OpenSum(L.orders_, orders)
        /\ L.order_count_ = Len(L.orders_)

\* C4: aggregate consistency.  After every operation every PriceLevel has
\* total_quantity equal to the sum of the open quantities of the orders it
\* holds and order_count equal to the number of orders it holds.
C4_AggregateConsistency ==
    /\ AggregatesConsistent(mAskTracker)
    /\ AggregatesConsistent(tracker)

\* C5: index consistency.  For every entry of order_locations_ the level at
\* the stored price exists, the stored position in that level designates
\* exactly that order, and the order's price equals the stored price.
C5_IndexConsistency ==
    \A id \in DOMAIN tracker.order_locations_ :
        LET loc == tracker.order_locations_[id] IN
        /\ loc.price \in DOMAIN tracker.price_levels_
        /\ IterValid(tracker, loc)
        /\ orders[tracker.price_levels_[loc.price].orders_[loc.idx]].order_id_ = id
        /\ orders[id].price_ = loc.price

\* C6: no empty levels.  No PriceLevel with zero orders is present in the
\* tracker's price_levels_.
C6_NoEmptyLevels ==
    \A price \in DOMAIN tracker.price_levels_ :
        tracker.price_levels_[price].orders_ # <<>>

\* C7: every order held in the price levels of the ask side has a strictly
\* positive open quantity whenever addOrder has returned.
C7_RestingOrdersOpen ==
    \A price \in DOMAIN mAskTracker.price_levels_ :
        LET os == mAskTracker.price_levels_[price].orders_ IN
        \A i \in 1 .. Len(os) : ULess(0, orders[os[i]].open_quantity_)

\* C8: status coherence.  After every operation an order has status FILLED
\* if and only if its open quantity is 0.
C8_StatusCoherence ==
    \A p \in Created :
        orders[p].status_ = "FILLED" <=> orders[p].open_quantity_ = 0

\* one status change of the lifecycle
\* PENDING -> ACCEPTED -> (PARTIALLY_FILLED)* -> FILLED, ... -> CANCELLED,
\* PENDING -> REJECTED
LifecycleStep(a, b) ==
    \/ a = b
    \/ a = "PENDING" /\ b \in {"ACCEPTED", "REJECTED"}
    \/ a = "ACCEPTED" /\ b \in {"PARTIALLY_FILLED", "FILLED", "CANCELLED"}
    \/ a = "PARTIALLY_FILLED" /\ b \in {"FILLED", "CANCELLED"}

\* C9: every status an operation writes to an order follows the order's
\* previous status along the lifecycle: ACCEPTED comes before any fill or
\* cancel status, REJECTED is entered only from PENDING, and FILLED,
\* CANCELLED and REJECTED are never left.
C9_StatusLifecycle ==
    \A p \in Created :
        LET trail == orders[p].status_trail IN
        \A k \in 1 .. Len(trail) - 1 : LifecycleStep(trail[k], trail[k + 1])

\* C10: FOK atomicity.  An order whose time in force is FILL_OR_KILL either
\* is filled completely or produces no trade: whenever an addOrder has
\* appended a trade that names it as the inbound order, it has no open
\* quantity left when addOrder returns.
C10_FOKAtomicity ==
    [][\A p \in Created :
           (/\ is_fill_or_kill(orders[p])
            /\ \E k \in 1 .. Len(NewTrades) : NewTrades[k].inbound_order = p)
               => orders'[p].open_quantity_ = 0
      ]_vars

\* the orders resting on the ask side in price-time order: lowest price
\* first, within a price the order added first
RECURSIVE RestingAsks(_)
RestingAsks(keys) ==
    IF keys = <<>> THEN <<>>
    ELSE mAskTracker.price_levels_[keys[1]].orders_ \o RestingAsks(Tail(keys))

\* C11: all-or-none skip.  With ALL_OR_NONE set, a resting order is skipped
\* exactly when its open quantity is less than the inbound order's remaining
\* open quantity.  So a valid market buy of open quantity q trades with the
\* first resting order in price-time order whose open quantity is at least
\* q, for q, whatever smaller orders rest ahead of it, and trades with
\* nothing when no resting order covers q.
C11_AllOrNoneSkip ==
    [][\A p \in Created :
           (/\ AddOrder(p, ALL_OR_NONE)
            /\ validateOrder(orders[p])
            /\ is_market(orders[p]) /\ is_buy(orders[p])
            /\ orders[p].open_quantity_ # 0)
           => LET q == orders[p].open_quantity_
                  asks == RestingAsks(SortedKeys(DOMAIN mAskTracker.price_levels_))
                  covering == {i \in 1 .. Len(asks) :
                                 ~ULess(orders[asks[i]].open_quantity_, q)}
              IN  IF covering = {}
                  THEN NewTrades = <<>>
                  ELSE LET first == CHOOSE i \in covering :
                                        \A j \in covering : i <= j
                       IN  /\ Len(NewTrades) = 1
                           /\ NewTrades[1].resting_order = asks[first]
                           /\ NewTrades[1].inbound_order = p
                           /\ NewTrades[1].quantity = q
      ]_vars

\* a validation rule fails for order o: the symbol is not the engine's, the
\* original quantity is 0, the open quantity is above the original one, a
\* non-market order has price <= 0, a stop or stop-limit order has stop
\* price <= 0
FailsValidation(o) ==
    \/ o.symbol_ # "SYM"
    \/ o.quantity_ = 0
    \/ ULess(o.quantity_, o.open_quantity_)
    \/ o.order_type_ # "MARKET" /\ o.price_ <= 0
    \/ o.order_type_ \in {"STOP", "STOP_LIMIT"} /\ o.stop_price_ <= 0

\* the calls of one event, about order p, on every registered order
\* listener once, in registration order
OnceOnEveryListener(calls, event, p) ==
    /\ Len(calls) = Len(mOrderListeners)
    /\ \A i \in 1 .. Len(calls) :
           /\ calls[i].event = event
           /\ calls[i].listener = mOrderListeners[i]
           /\ calls[i].order = p

\* C12: rejection outcome.  An addOrder of a non-null order that fails a
\* validation rule sets its status to REJECTED, calls on_reject once on
\* every registered order listener, adds exactly 1 to the rejected counter,
\* returns false, and leaves the four trackers, the pending trades, the
\* trade and volume counters and the market and last-trade prices as they
\* were.
C12_RejectionOutcome ==
    [][\A p \in Created :
           (/\ FailsValidation(orders[p])
            /\ \E c \in {NO_CONDITIONS, ALL_OR_NONE} : AddOrder(p, c))
           => /\ orders'[p].status_ = "REJECTED"
              /\ OnceOnEveryListener(events', "on_reject", p)
              /\ mStats'.total_rejected = mStats.total_rejected + 1
              /\ ret' = RetBool(FALSE)
              /\ mStats'.total_trades = mStats.total_trades
              /\ mStats'.total_volume = mStats.total_volume
              /\ UNCHANGED <<mBidTracker, mAskTracker, mStopBidTracker,
                             mStopAskTracker, mPendingTrades, mMarketPrice,
                             mLastTradePrice, mLastTradeQuantity>>
      ]_vars

\* a stop order without a stop price has been rejected and two listeners
\* were told
C12_Witness ==
    /\ Len(events) = 2
    /\ events[1].event = "on_reject" /\ events[2].event = "on_reject"
    /\ events[1].listener # events[2].listener
    /\ ret = RetBool(FALSE)
    /\ mStats.total_rejected = 1
    /\ LET o == orders[events[1].order]
       IN  /\ o.status_ = "REJECTED"
           /\ is_stop(o) /\ o.stop_price_ = 0 /\ o.price_ > 0

\* C13: null order.  addOrder(nullptr) is an ordinary validation failure:
\* it returns false, the rejected counter has grown by 1, on_reject was
\* called on every order listener, and the process has not faulted.
C13_NullOrderRejected ==
    [][AddNullOrder
           => /\ ~fault'
              /\ ret' = RetBool(FALSE)
              /\ mStats'.total_rejected = mStats.total_rejected + 1
              /\ OnceOnEveryListener(events', "on_reject", NullOrder)
      ]_vars

\* the tracker of the side opposite to order o, and the stop tracker of o's
\* own side
OppositeTracker(o) == IF is_buy(o) THEN mAskTracker ELSE mBidTracker
SameSideStopTracker(o) == IF is_buy(o) THEN mStopBidTracker ELSE mStopAskTracker

\* some call of addOrder on order p is this step
AddOrderStep(p) == \E c \in {NO_CONDITIONS, ALL_OR_NONE} : AddOrder(p, c)

\* C14: market order against an empty opposite side.  A valid market order,
\* buy or sell, submitted while the opposite side is empty produces no
\* trade, ends CANCELLED, is held in no tracker, and on_cancel is called on
\* every order listener with the open quantity that was cancelled.
C14_MarketOnEmptyBook ==
    [][\A p \in Created :
           (/\ AddOrderStep(p)
            /\ ~FailsValidation(orders[p])
            /\ is_market(orders[p])
            /\ OppositeTracker(orders[p]).price_levels_ = <<>>)
           => /\ NewTrades = <<>>
              /\ orders'[p].status_ = "CANCELLED"
              /\ \A T \in {mBidTracker', mAskTracker', mStopBidTracker',
                            mStopAskTracker'} :
                     ~has_order(T, orders[p].order_id_)
              /\ OnceOnEveryListener(events', "on_cancel", p)
              /\ \A i \in 1 .. Len(events') :
                     events'[i].quantity = orders[p].open_quantity_
      ]_vars

\* C16: limit order rests.  A valid LIMIT order with GTC or DAY time in
\* force that still has open quantity when addOrder returns is then resting
\* in the tracker of its own side: has_order finds it, at a level keyed by
\* its price.
C16_LimitRemainderRests ==
    [][\A p \in Created :
           (/\ AddOrderStep(p)
            /\ ~FailsValidation(orders[p])
            /\ orders[p].order_type_ = "LIMIT"
            /\ orders[p].time_in_force_ \in {"GOOD_TILL_CANCELLED", "DAY"}
            /\ ULess(0, orders'[p].open_quantity_))
           => LET T == IF is_buy(orders[p]) THEN mBidTracker' ELSE mAskTracker'
                  id == orders[p].order_id_
              IN  /\ has_order(T, id)
                  /\ T.order_locations_[id].price = orders[p].price_
                  /\ orders[p].price_ \in DOMAIN T.price_levels_
      ]_vars

\* C17: stop orders.  A valid STOP or STOP_LIMIT order submitted through
\* addOrder is in the stop tracker of its side, with no trade made, when
\* addOrder returns; it stays there through every step that is not a
\* setmarketprice(p) satisfying its trigger, and is out of the stop tracker
\* when such a setmarketprice returns.
C17_StopOrderHeld ==
    [][\A p \in Created :
           LET o == orders[p]
               held == has_order(SameSideStopTracker(o), o.order_id_)
               heldAfter == has_order(IF is_buy(o) THEN mStopBidTracker'
                                      ELSE mStopAskTracker', o.order_id_)
               triggering == \E price \in 1 .. MaxPrice :
                                 /\ SetMarketPrice(price)
                                 /\ StopTriggered(o, price)
           IN  /\ (AddOrderStep(p) /\ ~FailsValidation(o) /\ is_stop(o))
                      => NewTrades = <<>> /\ heldAfter
               /\ (held /\ ~triggering) => heldAfter
               /\ (held /\ triggering) => ~heldAfter
      ]_vars

\* C18: on_accept.  For an order that passes validation in addOrder,
\* on_accept is called on every registered order listener exactly once,
\* before any fill or cancel event of that order.
C18_AcceptEmitted ==
    [][\A p \in Created :
           (AddOrderStep(p) /\ ~FailsValidation(orders[p]))
           => /\ OnceOnEveryListener(
                     SelectSeq(events', LAMBDA e : e.event = "on_accept"
                                                   /\ e.order = p),
                     "on_accept", p)
              /\ \A i, j \in 1 .. Len(events') :
                     (/\ events'[i].event = "on_accept"
                      /\ events'[i].order = p
                      /\ events'[j].event \in {"on_fill", "on_cancel", "on_trade"}
                      /\ events'[j].order = p)
                     => i < j
      ]_vars

\* the orders resting on the bid side at the prices S in price-time order:
\* highest price first, within a price the order added first
RECURSIVE RestingBids(_)
RestingBids(S) ==
    IF S = {} THEN <<>>
    ELSE LET best == CHOOSE x \in S : \A y \in S : x >= y
         IN  mBidTracker.price_levels_[best].orders_ \o RestingBids(S \ {best})

\* sum of the quantities of the trades of a sequence
RECURSIVE TradedQuantity(_)
TradedQuantity(trades) ==
    IF trades = <<>> THEN 0
    ELSE trades[1].quantity + TradedQuantity(Tail(trades))

\* C15: market sell.  A valid market sell submitted while bids rest is
\* matched against the bid side with no price limit: it trades with the
\* bids in price-time order until its quantity is exhausted or no bid has
\* open quantity left, so the trades add up to the smaller of its quantity
\* and the bids' open quantity, and a bid trades only when every bid ahead
\* of it is filled.
C15_MarketSellMatches ==
    [][\A p \in Created :
           (/\ AddOrderStep(p)
            /\ ~FailsValidation(orders[p])
            /\ is_market(orders[p]) /\ ~is_buy(orders[p]))
           => LET bids == RestingBids(DOMAIN mBidTracker.price_levels_)
              IN  /\ TradedQuantity(NewTrades) =
                         UMin(orders[p].open_quantity_, OpenSum(bids, orders))
                  /\ \A k \in 1 .. Len(NewTrades) :
                         /\ NewTrades[k].inbound_order = p
                         /\ \E j \in 1 .. Len(bids) :
                                /\ NewTrades[k].resting_order = bids[j]
                                /\ \A i \in 1 .. j - 1 :
                                       orders'[bids[i]].open_quantity_ = 0
      ]_vars

\* C19: trade delivery.  When addOrder returns, every trade it appended to
\* mPendingTrades has been delivered as on_trade to every registered trade
\* listener, once and in execution order.
C19_TradesDelivered ==
    [][(\E p \in Created : AddOrderStep(p))
           => \A l \in 1 .. Len(mTradeListeners) :
                  LET got == SelectSeq(events',
                                 LAMBDA e : e.event = "on_trade"
                                            /\ e.listener = mTradeListeners[l])
                  IN  /\ Len(got) = Len(NewTrades)
                      /\ \A k \in 1 .. Len(got) :
                             /\ got[k].order = NewTrades[k].inbound_order
                             /\ got[k].matched_order = NewTrades[k].resting_order
                             /\ got[k].quantity = NewTrades[k].quantity
                             /\ got[k].price = NewTrades[k].price
      ]_vars

\* C20: market and last-trade prices.  When an addOrder that made a trade
\* returns, mMarketPrice and mLastTradePrice equal the price of the last
\* trade recorded and mLastTradeQuantity its quantity; an addOrder that
\* made no trade leaves the three as they were.
C20_LastTradeSnapshot ==
    [][(\E p \in Created : AddOrderStep(p))
           => IF NewTrades = <<>>
              THEN UNCHANGED <<mMarketPrice, mLastTradePrice,
                               mLastTradeQuantity>>
              ELSE LET last == NewTrades[Len(NewTrades)]
                   IN  /\ mMarketPrice' = last.price
                       /\ mLastTradePrice' = last.price
                       /\ mLastTradeQuantity' = last.quantity
      ]_vars

\* one addOrder has traded at two prices and the snapshot is the second
\* trade's
C20_Witness ==
    /\ Len(mPendingTrades) >= 2
    /\ LET last == mPendingTrades[Len(mPendingTrades)]
           prev == mPendingTrades[Len(mPendingTrades) - 1]
       IN  /\ last.inbound_order = prev.inbound_order
           /\ last.price # prev.price
           /\ mMarketPrice = last.price
           /\ mLastTradePrice = last.price
           /\ mLastTradeQuantity = last.quantity

\* the thread inside addOrder that holds the mutex, if any
InsideAddOrder(t) ==
    /\ mBookMutex = t
    /\ threads[t].pc \in {"validate", "match", "cancel", "return"}

\* C21: mutating operations are serialized.  While a thread is inside
\* addOrder holding the engine lock, a setmarketprice of another thread does
\* not change the market price: between two steps of that addOrder the
\* market price changes only by a trade of that addOrder, to that trade's
\* price.
C21_MarketPriceUnderLock ==
    [][\A t \in Threads :
           (InsideAddOrder(t) /\ mMarketPrice' # mMarketPrice)
           => /\ NewTrades # <<>>
              /\ NewTrades[Len(NewTrades)].inbound_order = threads[t].order
              /\ mMarketPrice' = NewTrades[Len(NewTrades)].price
      ]_vars

\* sequence a is the beginning of sequence b
IsPrefix(a, b) == Len(a) <= Len(b) /\ a = SubSeq(b, 1, Len(a))

\* no call is in progress
Quiescent == \A t \in Threads : threads[t].pc \in {"idle", "done"}

\* C22: calls are serialized in lock order.  When threads call addOrder
\* and addOrderListener concurrently, the trades recorded so far are always
\* the beginning of the trades that running the calls one at a time, in the
\* order they took the lock, records (so the trades of two calls are never
\* interleaved); and once no call is in progress the pending trades, the
\* orders' states, the counters, the listener registry and the callbacks of
\* the last call are those of that one-at-a-time run.
C22_SerialExecution ==
    ~NoCallYet =>
        /\ IsPrefix(mPendingTrades, serial.trades)
        /\ Quiescent =>
               /\ mPendingTrades = serial.trades
               /\ orders = serial.ords
               /\ mStats = serial.stats
               /\ mOrderListeners = serial.orderListeners
               /\ events = serial.events

\* two threads have each finished an addOrder that traded
C22_Witness ==
    /\ \A t \in Threads : threads[t].pc = "done"
    /\ Len(mPendingTrades) = 2
    /\ mPendingTrades[1].inbound_order # mPendingTrades[2].inbound_order
    /\ mPendingTrades = serial.trades

\* the price that is best for a side among the prices S: the highest for
\* the buy side, the lowest for the sell side
BestOf(is_buy_side, S) ==
    IF is_buy_side THEN CHOOSE x \in S : \A y \in S : x >= y
    ELSE CHOOSE x \in S : \A y \in S : x <= y

\* C23: best price.  For a tracker that holds at least one level,
\* best_price() is the highest price present on the buy side and the lowest
\* on the sell side, best_level() is the level at that price, and
\* price_levels() iterates best-first for the tracker's side.
C23_BestPriceFirst ==
    DOMAIN tracker.price_levels_ # {} =>
        LET best == BestOf(tracker.is_buy_side_, DOMAIN tracker.price_levels_)
            keys == LevelKeys(tracker)
        IN  /\ best_price(tracker) = best
            /\ best_level(tracker) =
                   [null |-> FALSE, level |-> tracker.price_levels_[best]]
            /\ \A i, j \in 1 .. Len(keys) :
                   i < j => IF tracker.is_buy_side_ THEN keys[i] > keys[j]
                            ELSE keys[i] < keys[j]

\* level price lp can trade against limit price lim on a side
Eligible(is_buy_side, lp, lim) == IF is_buy_side THEN lp >= lim ELSE lp <= lim

\* sum of the quantities of a plan
RECURSIVE PlanQuantity(_)
PlanQuantity(matches) ==
    IF matches = <<>> THEN 0 ELSE matches[1][2] + PlanQuantity(Tail(matches))

\* total open quantity of the orders resting at the prices S of tracker T
RECURSIVE OpenAt(_, _)
OpenAt(T, S) ==
    IF S = {} THEN 0
    ELSE LET k == CHOOSE x \in S : TRUE
         IN  OpenSum(T.price_levels_[k].orders_, orders) + OpenAt(T, S \ {k})

\* C24: matchQuantity.  For either side, every limit price and every max
\* quantity, the plan holds only orders of eligible levels (buy side: level
\* price >= limit, sell side: level price <= limit) and its quantities add
\* up to the smaller of max quantity and the open quantity resting at all
\* eligible levels.
C24_MatchPlanComplete ==
    \A limit_price \in 0 .. MaxPrice + 1, max_quantity \in 0 .. MaxTotal :
        LET plan == matchQuantity(tracker, orders, limit_price, max_quantity)
            eligible == {k \in DOMAIN tracker.price_levels_ :
                            Eligible(tracker.is_buy_side_, k, limit_price)}
        IN  /\ \A n \in 1 .. Len(plan) :
                   \E k \in eligible :
                       \E i \in 1 .. Len(tracker.price_levels_[k].orders_) :
                           tracker.price_levels_[k].orders_[i] = plan[n][1]
            /\ PlanQuantity(plan) = UMin(max_quantity, OpenAt(tracker, eligible))

\* C26: amend to zero is remove.  After update_order_quantity(o, 0) on a
\* resting order the tracker (levels, their order_count and
\* total_quantity, which levels exist, the location index, has_order) is
\* what remove_order(o) makes of the same starting state.
C26_AmendToZeroIsRemove ==
    [][\A p \in Created :
           (/\ TrackerUpdateQuantity(p, 0)
            /\ has_order(tracker, orders[p].order_id_)
            /\ IterValid(tracker, tracker.order_locations_[orders[p].order_id_]))
           => /\ tracker' = OT_remove_order(tracker, orders, p).tracker
              /\ ~has_order(tracker', orders[p].order_id_)
      ]_vars

\* the orders of sequence os without order p
Without(os, p) == SelectSeq(os, LAMBDA o : o # p)

\* C27: remove_order.  For an indexed order it returns true and removes
\* exactly that order: every level keeps its other orders in their order, a
\* level is erased exactly when it held no other order, every other order
\* keeps its location entry, and has_order of the removed id is false.  For
\* an order that is not indexed it returns false and changes nothing.
C27_RemoveExactlyOne ==
    [][\A p \in Created :
           TrackerRemoveOrder(p) =>
               LET id == orders[p].order_id_ IN
               IF has_order(tracker, id)
               THEN /\ ~fault'
                    /\ ret' = RetBool(TRUE)
                    /\ ~has_order(tracker', id)
                    /\ DOMAIN tracker'.order_locations_ =
                           DOMAIN tracker.order_locations_ \ {id}
                    /\ \A k \in DOMAIN tracker.price_levels_ :
                           LET rest == Without(tracker.price_levels_[k].orders_, p)
                           IN  IF rest = <<>>
                               THEN k \notin DOMAIN tracker'.price_levels_
                               ELSE /\ k \in DOMAIN tracker'.price_levels_
                                    /\ tracker'.price_levels_[k].orders_ = rest
                    /\ DOMAIN tracker'.price_levels_ \subseteq
                           DOMAIN tracker.price_levels_
               ELSE /\ ret' = RetBool(FALSE)
                    /\ tracker' = tracker
                    /\ ~fault'
      ]_vars

\* the resting book does not cross itself: a side is empty, or the lowest
\* ask price is above the highest bid price
NotCrossed(bids, asks) ==
    \/ DOMAIN bids.price_levels_ = {}
    \/ DOMAIN asks.price_levels_ = {}
    \/ BestOf(FALSE, DOMAIN asks.price_levels_) >
           BestOf(TRUE, DOMAIN bids.price_levels_)

\* C25: no self-crossing.  When an addOrder returns, the bid side is empty,
\* or the ask side is empty, or the best ask price is strictly above the
\* best bid price.
C25_BookNotCrossed ==
    [][(\E p \in Created : AddOrderStep(p))
           => NotCrossed(mBidTracker', mAskTracker')
      ]_vars

\* both sides hold orders, and addOrder has returned for a valid buy limit
\* order, the last order constructed, priced at or above the best ask
C25_Witness ==
    /\ ret = RetBool(FALSE)
    /\ DOMAIN mBidTracker.price_levels_ # {}
    /\ DOMAIN mAskTracker.price_levels_ # {}
    /\ LET b == orders[Len(orders)] IN
           /\ is_buy(b) /\ validateOrder(b)
           /\ ~has_order(mBidTracker, b.order_id_)
           /\ b.price_ >= BestOf(FALSE, DOMAIN mAskTracker.price_levels_)
    /\ NotCrossed(mBidTracker, mAskTracker)

\* the prices of the non-empty levels of tracker T in its iteration order
NonEmptyKeys(T) ==
    SelectSeq(LevelKeys(T), LAMBDA k : T.price_levels_[k].orders_ # <<>>)

\* levels, count are the capture of tracker T in a depth tracker of max
\* levels: slot i below the count is the i-th non-empty level, the count is
\* the smaller of max and the number of non-empty levels, the other slots
\* are (0, 0, 0)
SideCaptured(levels, count, T, max) ==
    LET keys == NonEmptyKeys(T)
        n == IF Len(keys) < max THEN Len(keys) ELSE max
    IN  /\ count = n
        /\ Len(levels) = max
        /\ \A i \in 0 .. max - 1 :
               levels[i + 1] =
                   IF i < n
                   THEN [price |-> keys[i + 1],
                         quantity |-> T.price_levels_[keys[i + 1]].total_quantity_,
                         order_count |-> T.price_levels_[keys[i + 1]].order_count_]
                   ELSE [price |-> 0, quantity |-> 0, order_count |-> 0]

\* C28: depth fidelity.  After update_from_tracker(bids, asks), on each
\* side every slot i below min(MAX_LEVELS, number of non-empty levels) is
\* (price, total_quantity, order_count) of the i-th non-empty level in the
\* tracker's iteration order, the side's count is that minimum, and every
\* slot at or beyond the count is (0, 0, 0).
C28_DepthFidelity ==
    [][UpdateFromTracker
           => /\ SideCaptured(depthTracker'.bid_levels_, depthTracker'.bid_count_,
                              BidTracker, depthTracker.MAX_LEVELS)
              /\ SideCaptured(depthTracker'.ask_levels_, depthTracker'.ask_count_,
                              AskTracker, depthTracker.MAX_LEVELS)
      ]_vars

\* a capture that skipped an empty level, or one that left out a level
\* beyond MAX_LEVELS, with the unused slots zeroed
C28_Witness ==
    /\ ret = RetNone
    /\ \/ /\ depthTracker.bid_count_ + depthTracker.ask_count_ = 1
          /\ depthTracker.MAX_LEVELS = 2
          /\ Len(LevelKeys(tracker)) = 2
          /\ Len(NonEmptyKeys(tracker)) = 1
          /\ NonEmptyKeys(tracker)[1] = LevelKeys(tracker)[2]
       \/ /\ depthTracker.bid_count_ + depthTracker.ask_count_ = 1
          /\ depthTracker.MAX_LEVELS = 1
          /\ Len(NonEmptyKeys(tracker)) = 2
    /\ SideCaptured(depthTracker.bid_levels_, depthTracker.bid_count_,
                    BidTracker, depthTracker.MAX_LEVELS)
    /\ SideCaptured(depthTracker.ask_levels_, depthTracker.ask_count_,
                    AskTracker, depthTracker.MAX_LEVELS)

\* the prices S from the best for a side to the worst
RECURSIVE BestFirst(_, _)
BestFirst(is_buy_side, S) ==
    IF S = {} THEN <<>>
    ELSE <<BestOf(is_buy_side, S)>>
         \o BestFirst(is_buy_side, S \ {BestOf(is_buy_side, S)})

\* the prices at which tracker T holds orders
RestingPrices(T) ==
    {k \in DOMAIN T.price_levels_ : T.price_levels_[k].orders_ # <<>>}

\* C29: depth order.  After update_from_tracker the k-th bid entry is the
\* k-th highest resting bid price and the k-th ask entry the k-th lowest
\* resting ask price; so best_bid() is the highest resting bid price, and
\* with more than MAX_LEVELS bid levels the captured ones are the highest.
C29_DepthBestFirst ==
    [][UpdateFromTracker
           => LET bids == BestFirst(TRUE, RestingPrices(BidTracker))
                  asks == BestFirst(FALSE, RestingPrices(AskTracker))
              IN  /\ \A k \in 1 .. depthTracker'.bid_count_ :
                         depthTracker'.bid_levels_[k].price = bids[k]
                  /\ \A k \in 1 .. depthTracker'.ask_count_ :
                         depthTracker'.ask_levels_[k].price = asks[k]
                  /\ bids # <<>> => best_bid(depthTracker') = bids[1]
      ]_vars

\* the current capture of a depth tracker
Snapshot(D) == <<D.bid_levels_, D.bid_count_, D.ask_levels_, D.ask_count_>>

\* depth tracker D holds the capture of the trackers as they are now, as
\* an update_from_tracker leaves it until a tracker is changed
CaptureCurrent(D) ==
    /\ SideCaptured(D.bid_levels_, D.bid_count_, BidTracker, D.MAX_LEVELS)
    /\ SideCaptured(D.ask_levels_, D.ask_count_, AskTracker, D.MAX_LEVELS)

\* C30: depth idempotence.  An update_from_tracker on trackers that are as
\* the update before it captured them (nothing has changed them since)
\* leaves an empty change list, has_changed() false and the capture as it
\* was.
C30_DepthIdempotent ==
    [][(UpdateFromTracker /\ CaptureCurrent(depthTracker))
           => /\ depthTracker'.changes_ = <<>>
              /\ ~has_changed(depthTracker')
              /\ Snapshot(depthTracker') = Snapshot(depthTracker)
      ]_vars

\* a second update has found a non-empty capture unchanged
C30_Witness ==
    /\ ret = RetNone
    /\ depthTracker.bid_count_ + depthTracker.ask_count_ > 0
    /\ depthTracker.changes_ = <<>>
    /\ ~has_changed(depthTracker)
    /\ depthTracker.prev_bid_levels_ = depthTracker.bid_levels_
    /\ depthTracker.prev_ask_levels_ = depthTracker.ask_levels_
    /\ depthTracker.prev_bid_count_ = depthTracker.bid_count_
    /\ depthTracker.prev_ask_count_ = depthTracker.ask_count_

\* C31: matchQuantity is read-only.  For every limit price and max
\* quantity, a call of matchQuantity leaves the tracker (price levels, the
\* order of each level, the aggregates, the location index) and every order
\* (open quantity, status) as they were.
C31_MatchQuantityReadOnly ==
    [][(/\ ret'.kind = "plan"
        /\ \E limit_price \in 1 .. MaxPrice, max_quantity \in 1 .. MaxQty :
               TrackerMatchQuantity(limit_price, max_quantity))
           => UNCHANGED <<tracker, orders>>
      ]_vars

\* a plan over two orders, one of them partially filled before, was returned
C31_Witness ==
    /\ ret.kind = "plan"
    /\ ret.q >= 2
    /\ \E price \in DOMAIN tracker.price_levels_ :
           LET os == tracker.price_levels_[price].orders_ IN
           /\ Len(os) >= 2
           /\ orders[os[1]].status_ = "PARTIALLY_FILLED"

\* the orders a level holds
Held(L) == {L.orders_[i] : i \in 1 .. Len(L.orders_)}

\* sum of the open quantities of the orders S
RECURSIVE OpenOf(_, _)
OpenOf(S, ords) ==
    IF S = {} THEN 0
    ELSE LET p == CHOOSE x \in S : TRUE
         IN  ords[p].open_quantity_ + OpenOf(S \ {p}, ords)

\* the level's aggregates agree with the orders it holds: total_quantity_ is
\* the sum of their open quantities and order_count_ their number, which is
\* also the number of elements of orders_ (no order is held twice)
LevelConsistent(L, ords) ==
    /\ L.total_quantity_ = OpenOf(Held(L), ords)
    /\ L.order_count_ = Cardinality(Held(L))
    /\ L.order_count_ = Len(L.orders_)

\* the orders of os that the step has charged: their open quantity is lower
\* after it
Charged(os) ==
    {i \in 1 .. Len(os) :
        orders'[os[i]].open_quantity_ < orders[os[i]].open_quantity_}

\* C32: fill_quantity(max) on a level whose aggregates are consistent
\* returns min(max, total_quantity); it charges the orders in FIFO order (an
\* order is charged only when every order ahead of it is left with nothing
\* open); every order it brings to zero is FILLED and removed, and nothing
\* else is removed; at most one order it charged stays, PARTIALLY_FILLED and
\* at the head of the level; afterwards total_quantity is the sum of the
\* open quantities of the orders that remain and order_count their number.
C32_FillQuantity ==
    [][\A price \in 1 .. MaxPrice, max_quantity \in 1 .. MaxQty :
           (/\ ret'.kind = "quantity"
            /\ TrackerFillQuantity(price, max_quantity)
            /\ LevelConsistent(tracker.price_levels_[price], orders))
           => LET L == tracker.price_levels_[price]
                  os == L.orders_
                  L1 == tracker'.price_levels_[price]
                  gone == Len(os) - Len(L1.orders_)
                  part == {i \in Charged(os) :
                              orders'[os[i]].open_quantity_ # 0}
              IN  /\ ret' = RetQuantity(UMin(max_quantity, L.total_quantity_))
                  /\ \A i, j \in 1 .. Len(os) :
                         i < j /\ j \in Charged(os)
                             => orders'[os[i]].open_quantity_ = 0
                  /\ gone >= 0
                  /\ L1.orders_ = SubSeq(os, gone + 1, Len(os))
                  /\ \A i \in 1 .. gone :
                         /\ orders'[os[i]].open_quantity_ = 0
                         /\ orders'[os[i]].status_ = "FILLED"
                  /\ \A i \in Charged(os) :
                         orders'[os[i]].open_quantity_ = 0 => i <= gone
                  /\ Cardinality(part) <= 1
                  /\ \A i \in part :
                         /\ i = gone + 1
                         /\ orders'[os[i]].status_ = "PARTIALLY_FILLED"
                  /\ LevelConsistent(L1, orders')
      ]_vars

\* one call has filled the level's first order completely and its second
\* in part
C32_Witness ==
    /\ ret.kind = "quantity"
    /\ ret.q >= 2
    /\ \E p \in Created :
           /\ orders[p].status_trail = <<"PENDING", "FILLED">>
           /\ \A price \in DOMAIN tracker.price_levels_ :
                  \A i \in 1 .. Len(tracker.price_levels_[price].orders_) :
                      tracker.price_levels_[price].orders_[i] # p
    /\ \E price \in DOMAIN tracker.price_levels_ :
           LET os == tracker.price_levels_[price].orders_ IN
           /\ os # <<>>
           /\ orders[os[1]].status_trail = <<"PENDING", "PARTIALLY_FILLED">>
           /\ LevelConsistent(tracker.price_levels_[price], orders)

\* slot i (from 0) of a captured side is present below the side's count
Present(count, i) == i < count

\* the slot of one side differs between the capture before the step and the
\* capture after it
SlotDiffers(cur, cur_count, prev, prev_count, i) ==
    \/ Present(cur_count, i) # Present(prev_count, i)
    \/ /\ Present(cur_count, i)
       /\ Present(prev_count, i)
       /\ cur[i + 1] # prev[i + 1]

\* the change record of a slot that differs
ChangeOf(is_bid, cur, cur_count, prev, prev_count, i) ==
    [is_bid |-> is_bid, level |-> i,
     price |-> IF Present(cur_count, i) THEN cur[i + 1].price
               ELSE prev[i + 1].price,
     old_quantity |-> IF Present(prev_count, i) THEN prev[i + 1].quantity
                      ELSE 0,
     new_quantity |-> IF Present(cur_count, i) THEN cur[i + 1].quantity
                      ELSE 0,
     old_order_count |-> IF Present(prev_count, i)
                         THEN prev[i + 1].order_count ELSE 0,
     new_order_count |-> IF Present(cur_count, i)
                         THEN cur[i + 1].order_count ELSE 0]

\* C33: change records.  After update_from_tracker the change list holds
\* one record for each (side, index) whose slot differs between the capture
\* the call found and the capture it made, and none for a slot that is the
\* same; the bid records come before the ask records, each side in
\* ascending index; a record carries the earlier quantity and count as old
\* and the later ones as new, with zero for a slot that is absent in one
\* capture and the price of the capture that has the slot.
C33_ChangeRecords ==
    [][UpdateFromTrackers
           => LET D == depthTracker
                  E == depthTracker'
                  ch == E.changes_
                  Slots == 0 .. D.MAX_LEVELS - 1
              IN  /\ \A i \in Slots :
                         /\ Cardinality({k \in 1 .. Len(ch) :
                                ch[k].is_bid /\ ch[k].level = i})
                            = IF SlotDiffers(E.bid_levels_, E.bid_count_,
                                             D.bid_levels_, D.bid_count_, i)
                              THEN 1 ELSE 0
                         /\ Cardinality({k \in 1 .. Len(ch) :
                                ~ch[k].is_bid /\ ch[k].level = i})
                            = IF SlotDiffers(E.ask_levels_, E.ask_count_,
                                             D.ask_levels_, D.ask_count_, i)
                              THEN 1 ELSE 0
                  /\ \A k \in 1 .. Len(ch) :
                         /\ ch[k].level \in Slots
                         /\ ch[k] = IF ch[k].is_bid
                                    THEN ChangeOf(TRUE, E.bid_levels_,
                                                  E.bid_count_, D.bid_levels_,
                                                  D.bid_count_, ch[k].level)
                                    ELSE ChangeOf(FALSE, E.ask_levels_,
                                                  E.ask_count_, D.ask_levels_,
                                                  D.ask_count_, ch[k].level)
                  /\ \A k, l \in 1 .. Len(ch) :
                         k < l =>
                             \/ ch[k].is_bid /\ ~ch[l].is_bid
                             \/ /\ ch[k].is_bid = ch[l].is_bid
                                /\ ch[k].level < ch[l].level
      ]_vars

\* one update has reported a new bid level and, after it, a removed ask
\* level
C33_Witness ==
    LET ch == depthTracker.changes_ IN
    \E k, l \in 1 .. Len(ch) :
        /\ k < l
        /\ ch[k].is_bid /\ ch[k].old_order_count = 0
        /\ ch[k].new_order_count > 0
        /\ ~ch[l].is_bid /\ ch[l].new_order_count = 0
        /\ ch[l].old_order_count > 0

\* C34: no empty trades.  Every trade record the engine appends has a
\* strictly positive quantity, and addOrder returns true only when the
\* inbound order's open quantity has decreased, for any sequence of market
\* buys against one ask side.
C34_TradesArePositive ==
    [][\A p \in Created :
           AddOrderStep(p)
               => /\ \A k \in 1 .. Len(NewTrades) :
                         ULess(0, NewTrades[k].quantity)
                  /\ ret'.b => ULess(orders'[p].open_quantity_,
                                     orders[p].open_quantity_)
      ]_vars

\* C35: statistics agree with the trade log.  In every reachable state
\* total_trades is the number of trade records in the pending-trade buffer
\* and total_volume the sum of their quantities; total_rejected goes up by
\* one in every addOrder that returns through the validation failure and
\* in no other step.
C35_StatsAgreeWithLog ==
    /\ [](/\ mStats.total_trades = Len(mPendingTrades)
          /\ mStats.total_volume = TradedQuantity(mPendingTrades))
    /\ [][mStats'.total_rejected
             = mStats.total_rejected
               + (IF \E p \in Created :
                        FailsValidation(orders[p]) /\ AddOrderStep(p)
                  THEN 1 ELSE 0)
         ]_vars

\* a trade of more than one unit and a rejection have been counted
C35_Witness ==
    /\ mStats.total_trades >= 1
    /\ mStats.total_volume > mStats.total_trades
    /\ mStats.total_rejected >= 1
    /\ Len(mPendingTrades) = mStats.total_trades

\* the two outcomes of an all-or-none market buy p: one trade for its entire
\* open quantity and the order FILLED, or no trade and the order CANCELLED
\* with its open quantity unchanged
AllOrNothing(p) ==
    \/ /\ Len(NewTrades) = 1
       /\ NewTrades[1].inbound_order = p
       /\ NewTrades[1].quantity = orders[p].open_quantity_
       /\ orders'[p].open_quantity_ = 0
       /\ orders'[p].status_ = "FILLED"
    \/ /\ NewTrades = <<>>
       /\ orders'[p].open_quantity_ = orders[p].open_quantity_
       /\ orders'[p].status_ = "CANCELLED"

RECURSIVE OrderCountOver(_, _)
OrderCountOver(T, S) ==
    IF S = {} THEN 0
    ELSE LET price == CHOOSE x \in S : TRUE
         IN  T.price_levels_[price].order_count_
             + OrderCountOver(T, S \ {price})

\* order p is an element of some price level of T
HeldIn(T, p) ==
    \E price \in DOMAIN T.price_levels_ :
        \E i \in 1 .. Len(T.price_levels_[price].orders_) :
            T.price_levels_[price].orders_[i] = p

\* C37: index and levels correspond.  After any sequence of addOrder,
\* remove_order, update_order_quantity and fill_quantity on the tracker, an
\* order is held in some price level if and only if has_order of its id is
\* true, and total_orders() is the sum of order_count over all levels.
C37_IndexMatchesLevels ==
    /\ \A p \in Created :
           HeldIn(tracker, p) <=> has_order(tracker, orders[p].order_id_)
    /\ total_orders(tracker)
           = OrderCountOver(tracker, DOMAIN tracker.price_levels_)

\* tracker T holds no level and knows no order
HoldsNothing(T) ==
    /\ DOMAIN T.price_levels_ = {}
    /\ DOMAIN T.order_locations_ = {}

====
